---- MODULE Spec2Model ----
(***************************************************************************)
(* Model of the step-detection pipeline of pyoti/evaluate/step_finder.py:  *)
(* find_steps, analyse_steps, delete_small_steps and their caller          *)
(* find_and_analyse_steps.                                                 *)
(*                                                                         *)
(* Lists are sequences; the code's 0-based position k is position k+1 of   *)
(* the sequence, and the cursor i of delete_small_steps keeps its 0-based  *)
(* value.  Floating point values are exact rationals <<n, d>> with d > 0   *)
(* in lowest terms; <<0, 0>> is NaN (the mean of an empty slice).          *)
(***************************************************************************)
EXTENDS Integers, Sequences, FiniteSets, TLC

\* ------------------------------------------------------------------ bounds
MaxN == 5
MaxSteps == 3
MaxHeight == 2
MaxThreshold == 2
PipeN == 4
MaxMass == 2
MaxData == 1
MaxSpacing == 3
MaxFilterN == 6
MaxWindow == 2
MaxNoise == 2
MaxQualityN == 8
BigMass == 3
MaxQuarters == 10
MaxResolution == 3
MaxSweepTime == 4
MaxSTD == 2
MaxVariance == 3

\* the value None of an optional argument
None == 0 - 1

\* a name that is not bound yet
NoValue == <<>>

\* -------------------------------------------------------------- arithmetic
Abs(x) == IF x < 0 THEN -x ELSE x

Max(a, b) == IF a > b THEN a ELSE b

Min(a, b) == IF a < b THEN a ELSE b

\* greatest common divisor of a >= 0 and b > 0
GCD(a, b) == CHOOSE g \in 1..b : /\ a % g = 0 /\ b % g = 0
                                /\ \A h \in (g + 1)..b : a % h # 0 \/ b % h # 0

NaN == <<0, 0>>

IsNaN(q) == q[2] = 0

\* the fraction n / d in lowest terms with a positive denominator
Lowest(n, d) ==
    LET g == GCD(Abs(n), Abs(d))
        s == IF d < 0 THEN 0 - 1 ELSE 1
    IN  <<(s * n) \div g, (s * d) \div g>>

\* n / d as a float: 0 / 0 is NaN (n and d are evaluated once)
Norm(n, d) ==
    CHOOSE q \in { IF y = 0 THEN NaN ELSE Lowest(x, y) : x \in {n}, y \in {d} } : TRUE

Float(k) == <<k, 1>>

RAdd(a, b) ==
    IF IsNaN(a) \/ IsNaN(b) THEN NaN
    ELSE Norm(a[1] * b[2] + b[1] * a[2], a[2] * b[2])

RSub(a, b) ==
    IF IsNaN(a) \/ IsNaN(b) THEN NaN
    ELSE Norm(a[1] * b[2] - b[1] * a[2], a[2] * b[2])

\* float times int
RMul(a, k) == IF IsNaN(a) THEN NaN ELSE Norm(a[1] * k, a[2])

\* float divided by int
RDiv(a, k) == IF IsNaN(a) THEN NaN ELSE Norm(a[1], a[2] * k)

RAbs(a) == <<Abs(a[1]), a[2]>>

\* a < b on floats: every comparison with NaN is False
RLess(a, b) == ~IsNaN(a) /\ ~IsNaN(b) /\ a[1] * b[2] < b[1] * a[2]

\* a == b on floats: NaN equals nothing
REq(a, b) == ~IsNaN(a) /\ ~IsNaN(b) /\ a = b

\* int(np.round(n / d)) for d > 0: round half to even
Round(n, d) ==
    LET q == n \div d
        r == n % d
    IN  IF 2 * r < d THEN q
        ELSE IF 2 * r > d THEN q + 1
        ELSE IF q % 2 = 0 THEN q ELSE q + 1

\* list.pop(k) for the 0-based position k
Pop(s, k) == [j \in 1..(Len(s) - 1) |-> IF j <= k THEN s[j] ELSE s[j + 1]]

\* list[k] = v for the 0-based position k
Put(s, k, v) == [s EXCEPT ![k + 1] = v]

RECURSIVE SumSeq(_)
SumSeq(s) == IF s = <<>> THEN 0 ELSE s[1] + SumSeq(Tail(s))

\* data[start:stop] for 0-based bounds
Slice(s, start, stop) == [j \in 1..Max(stop - start, 0) |-> s[start + j]]

\* -------------------------------------------------------------- filter_fbnl
\* the position a slice bound k means in a list of n items
PyIndex(n, k) == IF k < 0 THEN Max(n + k, 0) ELSE Min(k, n)

\* s[a:b] with the slice bounds of Python, negative ones counted from the end
PySlice(s, a, b) == Slice(s, PyIndex(Len(s), a), PyIndex(Len(s), b))

\* window_var = window_var or window
window_var_or_window(window_var, window) ==
    IF window_var = None \/ window_var = 0 THEN window ELSE window_var

\* loss = window + window_var - 1
filter_loss(window, window_var) == window + window_var - 1

\* inspect = int(np.ceil(window / 2))
inspect_length(window) == (window + 1) \div 2

\* a measured sample of the signal
real_sample(x) == [synthetic |-> FALSE, from |-> <<x>>]

\* a sample drawn by np.random.normal with the median and the standard
\* deviation of the measured samples in inspected
cap_sample(inspected) ==
    [synthetic |-> TRUE, from |-> [k \in 1..Len(inspected) |-> inspected[k].from[1]]]

\* np.r_[noise_start, data, noise_stop]: cap_length samples at each end, drawn
\* after data[:inspect_length + 1] and after data[-inspect_length:]
cap_data(data_, cap_length, inspect_length_) ==
    LET noise_start == [k \in 1..cap_length |->
                           cap_sample(PySlice(data_, 0, inspect_length_ + 1))]
        noise_stop == [k \in 1..cap_length |->
                          cap_sample(IF inspect_length_ = 0 THEN data_
                                     ELSE PySlice(data_, 0 - inspect_length_, Len(data_)))]
    IN  noise_start \o data_ \o noise_stop

\* np.full(N, np.nan): an array is modelled by the positions that hold a value
nan_array(N) == [k \in 1..N |-> FALSE]

\* hp.moving_mean(data, window): one mean for every full window
moving_mean(data_, window) == [k \in 1..Max(Len(data_) - window + 1, 0) |-> TRUE]

\* arr[a:b] = rhs: numpy wants as many values as positions, or one value
set_slice(arr, a, b, rhs) ==
    LET lo == PyIndex(Len(arr), a)
        hi == PyIndex(Len(arr), b)
    IN  IF Len(rhs) = Max(hi - lo, 0)
        THEN [raised |-> "None",
              v |-> [k \in 1..Len(arr) |-> IF lo < k /\ k <= hi THEN rhs[k - lo] ELSE arr[k]]]
        ELSE IF Len(rhs) = 1
        THEN [raised |-> "None",
              v |-> [k \in 1..Len(arr) |-> IF lo < k /\ k <= hi THEN rhs[1] ELSE arr[k]]]
        ELSE [raised |-> "ValueError", v |-> arr]

\* np.sum over a slice: a value if no term is nan
sum_has_value(flags) == \A k \in 1..Len(flags) : flags[k]

\* _iterative_variance: s[i] for start <= i < stop follows from s[i - 1] and
\* the estimate x[i + shift] that enters the window
_iterative_variance(s, x, start, stop, shift) ==
    [k \in 1..Len(s) |->
        IF start < k /\ k <= stop
        THEN s[start] /\ \A j \in start..(k - 1) : x[j + shift + 1]
        ELSE s[k]]

\* the forward-backward filter: which positions of its arrays hold a value, or
\* the exception it raises
_filter_fbnl(data_, window, window_var_) ==
    LET N == Len(data_)
        window_var == window_var_or_window(window_var_, window)
        x == moving_mean(data_, window)
        xb == set_slice(nan_array(N), window, N - window, PySlice(x, window + 1, Len(x)))
        xf == set_slice(nan_array(N), window, N - window, PySlice(x, 0, N - 2 * window))
        loss == filter_loss(window, window_var)
        sf0 == [nan_array(N) EXCEPT ![loss + 1] =
                   sum_has_value(PySlice(xf.v, window, loss + 1))]
        sb0 == [nan_array(N) EXCEPT ![loss + 1] =
                   sum_has_value(PySlice(xb.v, loss, loss + window_var))]
        sf == _iterative_variance(sf0, xf.v, loss + 1, N - loss, 0)
        sb == _iterative_variance(sb0, xb.v, loss + 1, N - loss, window_var - 1)
        f == [k \in 1..N |-> sf[k] /\ sb[k]]
    IN  IF xb.raised # "None" THEN [raised |-> xb.raised]
        ELSE IF xf.raised # "None" THEN [raised |-> xf.raised]
        ELSE IF loss >= N THEN [raised |-> "IndexError"]
        ELSE [raised |-> "None", data |-> data_, window |-> window,
              window_var |-> window_var,
              data_filtered |-> [k \in 1..N |-> f[k] /\ xf.v[k] /\ xb.v[k]],
              sf |-> sf, sb |-> sb, f |-> f, b |-> f, xf |-> xf.v, xb |-> xb.v]

\* data = data[loss:-loss] ... xb = xb[loss:-loss]
trim_caps(out, loss) ==
    [raised |-> "None", window |-> out.window, window_var |-> out.window_var,
     data |-> PySlice(out.data, loss, 0 - loss),
     data_filtered |-> PySlice(out.data_filtered, loss, 0 - loss),
     sf |-> PySlice(out.sf, loss, 0 - loss), sb |-> PySlice(out.sb, loss, 0 - loss),
     f |-> PySlice(out.f, loss, 0 - loss), b |-> PySlice(out.b, loss, 0 - loss),
     xf |-> PySlice(out.xf, loss, 0 - loss), xb |-> PySlice(out.xb, loss, 0 - loss)]

\* the namedtuple FBNLFilterResult: step_size = xb - xf, noise = sqrt(f * sf +
\* b * sb), step_mass = step_size / noise, noise_mean = np.nanmean(noise)
FBNLFilterResult(out) ==
    LET N == Len(out.data)
        noise == [k \in 1..N |-> out.f[k] /\ out.sf[k] /\ out.b[k] /\ out.sb[k]]
        step_size == [k \in 1..N |-> out.xb[k] /\ out.xf[k]]
    IN  [data |-> out.data, window |-> out.window, window_var |-> out.window_var,
         data_filtered |-> out.data_filtered, sf |-> out.sf, sb |-> out.sb,
         f |-> out.f, b |-> out.b, xf |-> out.xf, xb |-> out.xb,
         step_mass |-> [k \in 1..N |-> step_size[k] /\ noise[k]],
         step_size |-> step_size, noise |-> noise,
         noise_mean |-> \E k \in 1..N : noise[k]]

\* --------------------------------------------------------------- find_steps
\* sn.get_contiguous_segments(mask, min_length_high=1, min_distance_center=1,
\* min_length_low=1): the maximal runs of True as 0-based (start, stop)
get_contiguous_segments(mask) ==
    LET N == Len(mask)
    IN  { b \in (0..N) \X (0..N) :
            /\ b[1] < b[2]
            /\ \A k \in b[1]..(b[2] - 1) : mask[k + 1]
            /\ (b[1] = 0 \/ ~mask[b[1]])
            /\ (b[2] = N \/ ~mask[b[2] + 1]) }

\* np.r_[pos, neg][step_bounds[:, 0].argsort()] with the directions alongside
RECURSIVE SortByStart(_)
SortByStart(S) ==
    IF S = {} THEN <<>>
    ELSE LET m == CHOOSE x \in S : \A y \in S : x.b[1] <= y.b[1]
         IN  <<m>> \o SortByStart(S \ {m})

sorted_step_bounds(step_mass_, yc) ==
    LET pos == get_contiguous_segments(
                   [k \in 1..Len(step_mass_) |-> RLess(yc, Float(step_mass_[k]))])
        neg == get_contiguous_segments(
                   [k \in 1..Len(step_mass_) |-> RLess(Float(step_mass_[k]), RSub(Float(0), yc))])
    IN  SortByStart({[b |-> s, d |-> TRUE] : s \in pos}
                    \cup {[b |-> s, d |-> FALSE] : s \in neg})

\* One step of the merge/split pass: the last element of bins is the open bin,
\* c2 is twice the center of its last member.
close_center_step(bins, seg, max_step_width, min_step_spacing_, switch) ==
    LET new == [b |-> seg.b, d |-> seg.d, c2 |-> seg.b[1] + seg.b[2]]
    IN  IF bins = <<>> THEN <<new>>
        ELSE LET o == bins[Len(bins)]
                 split == \/ (seg.d # o.d /\ ~switch)
                          \/ seg.b[2] - o.b[1] > max_step_width
                          \/ 2 * seg.b[1] - o.c2 > 2 * min_step_spacing_
             IN  IF split THEN Append(bins, new)
                 ELSE [bins EXCEPT ![Len(bins)] =
                          [b |-> <<o.b[1], seg.b[2]>>, d |-> o.d,
                           c2 |-> seg.b[1] + seg.b[2]]]

RECURSIVE close_center_pass(_, _, _, _, _, _)
close_center_pass(segs, k, bins, max_step_width, min_step_spacing_, switch) ==
    IF k > Len(segs) THEN bins
    ELSE close_center_pass(segs, k + 1,
             close_center_step(bins, segs[k], max_step_width, min_step_spacing_, switch),
             max_step_width, min_step_spacing_, switch)

\* _delete_close_center(step_bounds, direction, max_step_width,
\* min_step_spacing, switch_accept): the final bins
_delete_close_center(segs, max_step_width, min_step_spacing_, switch) ==
    close_center_pass(segs, 1, <<>>, max_step_width, min_step_spacing_, switch)

\* weights = step_mass[start:stop]
bin_weights(step_mass_, start, stop) == Slice(step_mass_, start, stop)

\* np.multiply(idx, weights).sum() for idx = np.arange(start, stop)
weighted_index_sum(w, start) ==
    SumSeq([j \in 1..Len(w) |-> (start + j - 1) * w[j]])

\* np.average(idx, weights=weights) raises ZeroDivisionError
weights_sum_to_zero(step_mass_, start, stop) ==
    SumSeq(bin_weights(step_mass_, start, stop)) = 0

\* int(np.round(np.average(idx, weights=weights))), then max(start, .) and
\* min(stop - 1, .)
center_of_mass(step_mass_, start, stop) ==
    LET w == bin_weights(step_mass_, start, stop)
        scl == SumSeq(w)
        tot == weighted_index_sum(w, start)
        s == IF scl < 0 THEN -1 ELSE 1
        c == Round(s * tot, s * scl)
    IN  Min(stop - 1, Max(start, c))

\* sn.idx_to_idx_segments(plateau_indices)
idx_to_idx_segments(p) == [k \in 1..(Len(p) - 1) |-> <<p[k], p[k + 1]>>]

\* np.round(start + (stop - start) / 2).astype(int)
plateau_center(start, stop) == Round(2 * start + (stop - start), 2)

\* p_centers[p_centers > datapoints - 1] = datapoints - 1
find_p_centers(plateaus_, datapoints_) ==
    [k \in 1..Len(plateaus_) |->
        LET c == plateau_center(plateaus_[k][1], plateaus_[k][2])
        IN  IF c > datapoints_ - 1 THEN datapoints_ - 1 ELSE c]

\* find_steps(step_mass, y_c, min_step_spacing=., switch_accept=.):
\* max_step_width defaults to min_step_spacing, H and L to 1
find_steps(step_mass_, yc, min_step_spacing_, switch) ==
    LET bins == _delete_close_center(sorted_step_bounds(step_mass_, yc),
                                     min_step_spacing_, min_step_spacing_, switch)
        raised == \E k \in 1..Len(bins) :
                      weights_sum_to_zero(step_mass_, bins[k].b[1], bins[k].b[2])
        idx == [k \in 1..Len(bins) |->
                   center_of_mass(step_mass_, bins[k].b[1], bins[k].b[2])]
        pl == idx_to_idx_segments(<<0>> \o idx \o <<Len(step_mass_)>>)
    IN  IF raised THEN [raised |-> TRUE]
        ELSE [raised |-> FALSE,
              indices |-> idx,
              direction |-> [k \in 1..Len(bins) |-> bins[k].d],
              step_bounds |-> [k \in 1..Len(bins) |-> bins[k].b],
              number |-> Len(idx),
              plateaus |-> pl,
              p_centers |-> find_p_centers(pl, Len(step_mass_))]

\* ------------------------------------------------------------ analyse_steps
\* _calculate_plateau_heights: the mean of data[start:stop]
plateau_height(data_, start, stop) ==
    Norm(SumSeq(Slice(data_, start, stop)), Max(stop - start, 0))

\* dwell_points = indices[1:] - indices[:-1]
analyse_dwell_points(indices_) ==
    [j \in 1..Max(Len(indices_) - 1, 0) |-> indices_[j + 1] - indices_[j]]

\* as analyse_plateau_heights, with the stop index of a plateau included
analyse_plateau_heights_stop_included(plateaus_, data_) ==
    [k \in 1..Len(plateaus_) |->
        plateau_height(data_, plateaus_[k][1], Min(plateaus_[k][2] + 1, Len(data_)))]

analyse_plateau_heights(plateaus_, data_) ==
    [k \in 1..Len(plateaus_) |-> plateau_height(data_, plateaus_[k][1], plateaus_[k][2])]

\* step_sizes = plateau_heights[1:] - plateau_heights[:-1]
analyse_step_sizes(heights) ==
    [k \in 1..(Len(heights) - 1) |-> RSub(heights[k + 1], heights[k])]

\* ------------------------------------------------------------- numpy arrays
\* np.array(list of scalars): a 1-D array
np_array1(s) == [shape |-> <<Len(s)>>, v |-> s]

\* np.array(list of [start, stop] rows): 2-D, but np.array([]) has shape (0,)
np_array2(s) == [shape |-> IF s = <<>> THEN <<0>> ELSE <<Len(s), 2>>, v |-> s]

\* np.empty(shape=(0, 2))
np_empty02 == [shape |-> <<0, 2>>, v |-> <<>>]

\* np.array(scalar): a 0-d array, len() of it raises TypeError
np_array0(x) == [shape |-> <<>>, v |-> x]

\* the namedtuple Steps
Steps(indices_, direction_, bounds_, number_, plateaus_, p_centers_, step_sizes_, plateau_heights_, dwell_points_) ==
    [indices |-> indices_, direction |-> direction_, bounds |-> bounds_,
     number |-> number_, plateaus |-> plateaus_, p_centers |-> p_centers_,
     step_sizes |-> step_sizes_, plateau_heights |-> plateau_heights_,
     dwell_points |-> dwell_points_]

\* ------------------------------------------------------- get_min_step_sizes
\* noise[start:stop].mean() around one step, policy 'adapt'
adapt_noise_mean(step, fbnl) ==
    LET start_min == fbnl.window + fbnl.window_var - 1
        stop_max == Len(fbnl.noise) - start_min
        start == Max(step - (fbnl.window + fbnl.window_var), start_min)
        stop == Min(step + (fbnl.window + fbnl.window_var) * fbnl.window, stop_max)
    IN  Norm(SumSeq(Slice(fbnl.noise, start, stop)), Max(stop - start, 0))

\* step_size_threshold or 'adapt': None and 0 are falsy
effective_threshold(threshold) ==
    IF threshold.kind = "None" \/ (threshold.kind = "float" /\ threshold.value = 0)
    THEN [kind |-> "adapt", value |-> 0]
    ELSE threshold

\* y_c * float
scale_by_y_c(yc, x) == IF IsNaN(x) THEN NaN ELSE Norm(yc[1] * x[1], yc[2] * x[2])

get_min_step_sizes(indices_, yc, fbnl, threshold) ==
    LET t == effective_threshold(threshold)
    IN  [k \in 1..Len(indices_) |->
            IF t.kind = "adapt" THEN scale_by_y_c(yc, adapt_noise_mean(indices_[k], fbnl))
            ELSE IF t.kind = "static" THEN scale_by_y_c(yc, fbnl.noise_mean)
            ELSE Float(t.value)]

\* ------------------------------------------------------- get_step_qualities
\* the float inf, as np.float64(1) / 0 gives it
Inf == <<1, 0>>

\* the joins of adjoining plateaus, zip(plateaus[:-1], plateaus[1:]), without
\* the first and the last of them
quality_joins_interior(plateaus_) ==
    [k \in 1..Max(Len(plateaus_) - 3, 0) |-> <<k + 1, k + 2>>]

\* zip(plateaus[:-1], plateaus[1:], p_heights[:-1], p_heights[1:]): the
\* positions of the left and of the right plateau of every step
quality_joins(plateaus_) == [k \in 1..Max(Len(plateaus_) - 1, 0) |-> <<k, k + 1>>]

\* as quality_ranges, without the limit start_min of the left range
quality_ranges_without_start_min(p_l, p_r, window, start_min, stop_max) ==
    LET start_l == Max(Round(p_l[1] + p_l[2], 2), p_l[1] + window)
        stop_r == Min(Min(Round(p_r[1] + p_r[2], 2), p_r[2] - window), stop_max)
    IN  [start_l |-> start_l, stop_l |-> Max(p_l[2] - window, start_l),
         start_r |-> Min(p_r[1] + window, stop_r), stop_r |-> stop_r]

\* start_l, stop_l, start_r and stop_r of one step: the halves of the two
\* plateaus next to the step, window away from the steps and inside the valid
\* region of the filter
quality_ranges(p_l, p_r, window, start_min, stop_max) ==
    LET start_l == Max(Max(Round(p_l[1] + p_l[2], 2), p_l[1] + window), start_min)
        stop_r == Min(Min(Round(p_r[1] + p_r[2], 2), p_r[2] - window), stop_max)
    IN  [start_l |-> start_l, stop_l |-> Max(p_l[2] - window, start_l),
         start_r |-> Min(p_r[1] + window, stop_r), stop_r |-> stop_r]

\* total_number = stop_r - start_r + stop_l - start_l
total_number(r) == r.stop_r - r.start_r + r.stop_l - r.start_l

\* np.sum((data[start:stop] - ph)**2)
sum_squares(data_, start, stop, ph) ==
    IF IsNaN(ph) /\ stop > start THEN NaN
    ELSE IF stop <= start THEN Float(0)
    ELSE Norm(SumSeq([j \in 1..(stop - start) |->
                         (data_[start + j] * ph[2] - ph[1]) * (data_[start + j] * ph[2] - ph[1])]),
              ph[2] * ph[2])

\* as step_sd_squared, with the denominator total_number
step_sd_squared_biased(sum_, total) ==
    IF IsNaN(sum_) THEN NaN
    ELSE IF total = 0 THEN (IF sum_[1] = 0 THEN NaN ELSE Inf)
    ELSE Norm(sum_[1], sum_[2] * total)

\* step_sd[i] ** 2 = np.sum(p_h**2) / (total_number - 1): x / 0 is inf, 0 / 0 is
\* nan, and 0 / -1 is a zero
step_sd_squared(sum_, total) ==
    IF IsNaN(sum_) THEN NaN
    ELSE IF total - 1 = 0 THEN (IF sum_[1] = 0 THEN NaN ELSE Inf)
    ELSE IF total - 1 < 0 THEN Norm(sum_[1], sum_[2])
    ELSE Norm(sum_[1], sum_[2] * (total - 1))

\* np.mean(total_noise), or nan for no sample
step_noise_mean(noise_, r) ==
    IF total_number(r) > 0
    THEN Norm(SumSeq(Slice(noise_, r.start_l, r.stop_l))
                  + SumSeq(Slice(noise_, r.start_r, r.stop_r)), total_number(r))
    ELSE NaN

\* (step_noise / step_sd) ** 2 with the rules of numpy for nan, inf and 0
noise_over_sd_squared(noise_, sd2) ==
    IF noise_ = NaN \/ sd2 = NaN THEN NaN
    ELSE IF sd2 = Inf THEN Float(0)
    ELSE IF sd2[1] = 0 THEN (IF noise_[1] = 0 THEN NaN ELSE Inf)
    ELSE Norm(noise_[1] * noise_[1] * sd2[2], noise_[2] * noise_[2] * sd2[1])

\* the body of the loop for one join: the ranges, step_sd[i] ** 2, step_noise[i]
score_join(join, steps_, fbnl) ==
    LET start_min == fbnl.window + fbnl.window_var - 1
        r == quality_ranges(steps_.plateaus.v[join[1]], steps_.plateaus.v[join[2]],
                            fbnl.window, start_min, Len(fbnl.noise) - start_min)
        sums == RAdd(sum_squares(fbnl.data, r.start_l, r.stop_l,
                                 steps_.plateau_heights.v[join[1]]),
                     sum_squares(fbnl.data, r.start_r, r.stop_r,
                                 steps_.plateau_heights.v[join[2]]))
    IN  [ranges |-> r,
         step_sd_squared |-> step_sd_squared(sums, total_number(r)),
         step_noise |-> step_noise_mean(fbnl.noise, r)]

\* the namedtuple StepQuality; step_sd and step_noise_over_sd by their squares
StepQuality(step_sd2, step_noise_) ==
    [step_sd_squared |-> step_sd2, step_noise |-> step_noise_,
     step_noise_over_sd_squared |->
         [k \in 1..Len(step_sd2) |-> noise_over_sd_squared(step_noise_[k], step_sd2[k])]]

\* get_step_qualities as one function of its arguments
get_step_qualities(steps_, fbnl) ==
    LET joins == quality_joins(steps_.plateaus.v)
        score(k) == IF k <= Len(joins) THEN score_join(joins[k], steps_, fbnl)
                    ELSE [step_sd_squared |-> Float(0), step_noise |-> Float(0)]
    IN  StepQuality([k \in 1..Len(steps_.indices.v) |-> score(k).step_sd_squared],
                    [k \in 1..Len(steps_.indices.v) |-> score(k).step_noise])

\* ------------------------------------------------------- delete_small_steps
\* as array_after_write, for a list that shares its storage with the array
array_written_through(arr, list) == [arr EXCEPT !.v = list]

\* the array of the caller after a write to the list made of it: .tolist()
\* returns a new list (of new rows), the array keeps its entries
array_after_write(arr, list) == arr

\* np.abs(step_sizes[i]) < minsizes[i]
below_minimum(step_size, minsize) == RLess(RAbs(step_size), minsize)

\* as fused_height, with the plain mean of the two heights
fused_height_unweighted(p_height_l, l, p_height_r, r) ==
    RDiv(RAdd(p_height_l, p_height_r), 2)

\* p_height_new = (p_height_l * l + p_height_r * r) / (l + r)
fused_height(p_height_l, l, p_height_r, r) ==
    RDiv(RAdd(RMul(p_height_l, l), RMul(p_height_r, r)), l + r)

\* the new height of the plateau fused from plateaus i and i + 1
p_height_new(plateaus_, p_heights_, c) ==
    fused_height(p_heights_[c + 1], plateaus_[c + 1][2] - plateaus_[c + 1][1],
                 p_heights_[c + 2], plateaus_[c + 2][2] - plateaus_[c + 2][1])

\* as fuse_plateaus, without the correction of the following start index
fuse_plateaus_start_kept(plateaus_, c) == Pop(plateaus_, c)

\* plateaus[i + 1][0] = p_start_new; plateaus.pop(i)
fuse_plateaus(plateaus_, c) ==
    Pop(Put(plateaus_, c + 1, <<plateaus_[c + 1][1], plateaus_[c + 2][2]>>), c)

\* p_centers[i + 1] = p_center_new; p_centers.pop(i)
fuse_p_centers(p_centers_, plateaus_, c) ==
    Pop(Put(p_centers_, c + 1,
            plateau_center(plateaus_[c + 1][1], plateaus_[c + 2][2])), c)

\* p_heights[i + 1] = p_height_new; p_heights.pop(i)
fuse_p_heights(p_heights_, h_new, c) ==
    Pop(Put(p_heights_, c + 1, h_new), c)

\* as fuse_step_sizes, without the correction of the following step size
fuse_step_sizes_previous_only(step_sizes_, heights, h_new, c, n) ==
    LET a == IF c >= 1 THEN Put(step_sizes_, c - 1, RSub(h_new, heights[c]))
             ELSE step_sizes_
    IN  Pop(a, c)

\* step_sizes[i - 1] and step_sizes[i + 1] against the fused height (heights
\* is p_heights after its pop), then step_sizes.pop(i)
fuse_step_sizes(step_sizes_, heights, h_new, c, n) ==
    LET a == IF c >= 1 THEN Put(step_sizes_, c - 1, RSub(h_new, heights[c]))
             ELSE step_sizes_
        b == IF c < n - 1 THEN Put(a, c + 1, RSub(heights[c + 2], h_new))
             ELSE a
    IN  Pop(b, c)

\* as fuse_dwell_points, without the pop() after the very last step was deleted
fuse_dwell_points_last_kept(dwell_points_, c, n) ==
    LET a == IF c >= 1 /\ c < n - 1
             THEN Put(dwell_points_, c - 1, dwell_points_[c] + dwell_points_[c + 1])
             ELSE dwell_points_
    IN  IF c < n - 1 THEN Pop(a, c) ELSE a

\* as fuse_dwell_points, without the sum of the two adjacent dwell_points
fuse_dwell_points_not_summed(dwell_points_, c, n) ==
    IF c < n - 1 THEN Pop(dwell_points_, c)
    ELSE IF n >= 2 THEN Pop(dwell_points_, Len(dwell_points_) - 1)
    ELSE dwell_points_

\* dwell_points[i - 1] += dwell_points[i]; dwell_points.pop(i) or .pop()
fuse_dwell_points(dwell_points_, c, n) ==
    LET a == IF c >= 1 /\ c < n - 1
             THEN Put(dwell_points_, c - 1, dwell_points_[c] + dwell_points_[c + 1])
             ELSE dwell_points_
    IN  IF c < n - 1 THEN Pop(a, c)
        ELSE IF n >= 2 THEN Pop(a, Len(a) - 1)
        ELSE a

\* as pop_threshold, with the last threshold deleted
pop_threshold_last(minsizes_, c) == Pop(minsizes_, Len(minsizes_) - 1)

\* minsizes.pop(i)
pop_threshold(minsizes_, c) == Pop(minsizes_, c)

\* as steps_left, without the decrement
steps_left_not_counted(n) == n

\* num_steps -= 1
steps_left(n) == n - 1

\* as cursor_after_removal, with the counter set back once instead of twice
cursor_set_back_once(c) == Max(c - 1, 0 - 1) + 1

\* i -= 2; i = max(i, -1); i += 1
cursor_after_removal(c) == Max(c - 2, 0 - 1) + 1

\* as cursor_after_keep, without the increment
cursor_not_advanced(c) == c

\* i += 1 without a removal
cursor_after_keep(c) == c + 1

\* -------------------------------------------------------------------- state
VARIABLES
    pc,                \* position in the program
    fbnl_filter,       \* the FBNLFilterResult handed to find_and_analyse_steps
    args,              \* the other arguments of find_and_analyse_steps
    y_c,               \* threshold of step detection
    min_step_spacing,  \* spacing handed to find_steps
    found,             \* what find_steps returned
    steps_arg,         \* delete_small_steps: argument steps
    min_arg,           \* delete_small_steps: argument min_step_sizes
    step_bounds, indices, direction, plateaus, p_centers, num_steps,
    step_sizes, p_heights, dwell_points, minsizes, i,
                       \* delete_small_steps: its local lists and cursor
    steps,             \* what delete_small_steps returned
    result,            \* the StepFinderResult
    run,               \* 0: called by find_and_analyse_steps, 1, 2: direct calls
    removed,           \* number of removals of each call of delete_small_steps
    filter_args,       \* the arguments of filter_fbnl
    filtered,          \* what the filter has computed so far
    stdout,            \* the messages printed so far
    earlier,           \* the outcome of an earlier call with the same inputs
    scoring,           \* get_step_qualities: its loop counter and local arrays
    sweep              \* filter_find_analyse_steps: its arguments and locals

inputs == <<fbnl_filter, args>>
located == <<y_c, min_step_spacing, found>>
call == <<steps_arg, min_arg>>
lists == <<step_bounds, indices, direction, plateaus, p_centers, num_steps,
           step_sizes, p_heights, dwell_points, minsizes, i>>
beyond == <<filter_args, filtered, earlier, scoring, sweep>>
vars == <<pc, inputs, located, call, lists, steps, result, run, removed, beyond, stdout>>

NoLists ==
    /\ step_bounds = <<>> /\ indices = <<>> /\ direction = <<>>
    /\ plateaus = <<>> /\ p_centers = <<>> /\ num_steps = 0
    /\ step_sizes = <<>> /\ p_heights = <<>> /\ dwell_points = <<>>
    /\ minsizes = <<>> /\ i = 0

\* ------------------------------------------------------- delete_small_steps
\* steps.bounds.tolist() ... minsizes = min_step_sizes.tolist(); i = 0
DeleteEnter ==
    /\ pc = "call"
    /\ step_bounds' = steps_arg.bounds.v
    /\ indices' = steps_arg.indices.v
    /\ direction' = steps_arg.direction.v
    /\ plateaus' = steps_arg.plateaus.v
    /\ p_centers' = steps_arg.p_centers.v
    /\ num_steps' = steps_arg.number
    /\ step_sizes' = steps_arg.step_sizes.v
    /\ p_heights' = steps_arg.plateau_heights.v
    /\ dwell_points' = steps_arg.dwell_points.v
    /\ minsizes' = min_arg.v
    /\ i' = 0
    /\ removed' = Append(removed, 0)
    /\ pc' = "loop"
    /\ UNCHANGED <<inputs, beyond, stdout, located, call, steps, result, run>>

\* one iteration of the while loop that removes step i
DeleteRemove ==
    /\ pc = "loop"
    /\ i < num_steps
    /\ below_minimum(step_sizes[i + 1], minsizes[i + 1])
    /\ plateaus' = fuse_plateaus(plateaus, i)
    /\ p_centers' = fuse_p_centers(p_centers, plateaus, i)
    /\ \E h_new \in {p_height_new(plateaus, p_heights, i)} :
         /\ p_heights' = fuse_p_heights(p_heights, h_new, i)
         /\ step_sizes' = fuse_step_sizes(step_sizes, p_heights', h_new, i, num_steps)
    /\ dwell_points' = fuse_dwell_points(dwell_points, i, num_steps)
    /\ indices' = Pop(indices, i)
    /\ direction' = Pop(direction, i)
    /\ step_bounds' = Pop(step_bounds, i)
    /\ minsizes' = pop_threshold(minsizes, i)
    /\ num_steps' = steps_left(num_steps)
    /\ i' = cursor_after_removal(i)
    /\ removed' = [removed EXCEPT ![Len(removed)] = @ + 1]
    /\ steps_arg' = [steps_arg EXCEPT
                        !.bounds = array_after_write(@, step_bounds'),
                        !.indices = array_after_write(@, indices'),
                        !.direction = array_after_write(@, direction'),
                        !.plateaus = array_after_write(@, plateaus'),
                        !.p_centers = array_after_write(@, p_centers'),
                        !.step_sizes = array_after_write(@, step_sizes'),
                        !.plateau_heights = array_after_write(@, p_heights'),
                        !.dwell_points = array_after_write(@, dwell_points')]
    /\ min_arg' = array_after_write(min_arg, minsizes')
    /\ UNCHANGED <<pc, inputs, beyond, stdout, located, steps, result, run>>

\* one iteration of the while loop that keeps step i
DeleteKeep ==
    /\ pc = "loop"
    /\ i < num_steps
    /\ ~below_minimum(step_sizes[i + 1], minsizes[i + 1])
    /\ i' = cursor_after_keep(i)
    /\ UNCHANGED <<pc, inputs, beyond, stdout, located, call, step_bounds, indices, direction,
                   plateaus, p_centers, num_steps, step_sizes, p_heights,
                   dwell_points, minsizes, steps, result, run, removed>>

\* the arrays built from the lists and the Steps returned
DeleteReturn ==
    /\ pc = "loop"
    /\ ~(i < num_steps)
    /\ steps' = Steps(np_array1(indices), np_array1(direction),
                      np_array2(step_bounds), Len(indices), np_array2(plateaus),
                      np_array1(p_centers), np_array1(step_sizes),
                      np_array1(p_heights), np_array1(dwell_points))
    /\ pc' = "returned"
    /\ UNCHANGED <<inputs, beyond, stdout, located, call, lists, result, run, removed>>

\* a direct call of delete_small_steps on the Steps it returned, with the
\* thresholds of the surviving steps
DeleteAgain ==
    /\ pc = "returned"
    /\ run = 1
    /\ steps_arg' = steps
    /\ min_arg' = np_array1(minsizes)
    /\ run' = 2
    /\ pc' = "call"
    /\ UNCHANGED <<inputs, beyond, stdout, located, lists, steps, result, removed>>

\* --------------------------------------------------- find_and_analyse_steps
\* y_c = 2/3, or 2/3 * expected_min_step_size / fbnl_filter.noise_mean
threshold_y_c(expected_min_step_size, noise_mean) ==
    IF expected_min_step_size = None THEN Norm(2, 3)
    ELSE Norm(2 * expected_min_step_size * noise_mean[2], 3 * noise_mean[1])

\* min_step_spacing = max(expected_min_step_spacing, fbnl_filter.window); the
\* model gives expected_min_dwell_t in samples (resolution 1)
spacing_for(expected_min_dwell_t, window) ==
    IF expected_min_dwell_t = None THEN window
    ELSE Max(expected_min_dwell_t, window)

\* as selected_spacing, with the maximum taken only where the warning is shown
selected_spacing_when_warned(a, window) ==
    IF a.expected_min_dwell_t # None /\ ~(a.expected_min_dwell_t < window /\ a.verbose)
    THEN a.expected_min_dwell_t
    ELSE spacing_for(a.expected_min_dwell_t, window)

\* min_step_spacing as find_and_analyse_steps selects it from its arguments
selected_spacing(a, window) == spacing_for(a.expected_min_dwell_t, window)

\* y_c <= 2 * 1 / np.sqrt(window): false for nan
threshold_warned(yc, window) ==
    ~IsNaN(yc) /\ (yc[1] <= 0 \/ yc[1] * yc[1] * window <= 4 * yc[2] * yc[2])

\* expected_min_step_spacing < fbnl_filter.window
dwell_warned(expected_min_dwell_t, window) ==
    expected_min_dwell_t # None /\ expected_min_dwell_t < window

\* dwell_points.mean(): nan for an empty array
mean_dwell(dwell_points_) == Norm(SumSeq(dwell_points_), Len(dwell_points_))

\* what a verbose call shows before it calls find_steps
lines_before_find_steps(a, fbnl, yc) ==
    (IF threshold_warned(yc, fbnl.window) THEN <<"WARNING: The threshold y_c needs to satisfy">> ELSE <<>>)
    \o <<"Absolute noise of the signal">>
    \o (IF a.expected_min_dwell_t = None THEN <<"Autoselection of min_dwell_time was enabled.">>
        ELSE IF dwell_warned(a.expected_min_dwell_t, fbnl.window)
             THEN <<"WARNING: The expected minimal dwell time is smaller than the filter window time">>
             ELSE <<>>)
    \o <<"Selected a min_dwell_time">>

\* what a verbose call shows after delete_small_steps has returned
lines_after_delete(steps_pre, steps_, spacing) ==
    (IF steps_pre.number - steps_.number > 0
     THEN <<"Number of steps deleted", "New total number of steps">> ELSE <<>>)
    \o (IF RLess(mean_dwell(steps_pre.dwell_points.v), Float(spacing))
        THEN <<"INFORMATION: Mean dwell time of all steps is lower than minimum step spacing.">>
        ELSE <<>>)
    \o (IF RLess(mean_dwell(steps_.dwell_points.v), Float(spacing))
        THEN <<"WARNING: Mean dwell time is lower than minimum step spacing.">>
        ELSE <<>>)

\* the output after these lines, which only a verbose call shows
shown(verbose, out, lines) == IF verbose THEN out \o lines ELSE out

\* y_c, the messages, min_step_spacing and the call of find_steps
FindSteps ==
    /\ pc = "start"
    /\ y_c' = threshold_y_c(args.expected_min_step_size, fbnl_filter.noise_mean)
    /\ min_step_spacing' = selected_spacing(args, fbnl_filter.window)
    /\ found' = find_steps(fbnl_filter.step_mass, y_c', min_step_spacing',
                           args.switch_accept)
    /\ stdout' = shown(args.verbose, stdout,
                       lines_before_find_steps(args, fbnl_filter, y_c')
                       \o (IF found'.raised THEN <<>>
                           ELSE <<"Total number of steps found">>))
    /\ pc' = IF found'.raised THEN "ZeroDivisionError" ELSE "found"
    /\ UNCHANGED <<inputs, beyond, call, lists, steps, result, run, removed>>

\* number > 0: analyse_steps, steps_pre, get_min_step_sizes and the call of
\* delete_small_steps
AnalyseSteps ==
    /\ pc = "found"
    /\ found.number > 0
    /\ LET heights == analyse_plateau_heights(found.plateaus, fbnl_filter.data)
       IN  steps_arg' = Steps(np_array1(found.indices), np_array1(found.direction),
                              np_array2(found.step_bounds), found.number,
                              np_array2(found.plateaus), np_array1(found.p_centers),
                              np_array1(analyse_step_sizes(heights)),
                              np_array1(heights),
                              np_array1(analyse_dwell_points(found.indices)))
    /\ min_arg' = np_array1(get_min_step_sizes(found.indices, y_c, fbnl_filter,
                                               args.step_size_threshold))
    /\ pc' = "call"
    /\ UNCHANGED <<inputs, beyond, stdout, located, lists, steps, result, run, removed>>

\* number > 0: the StepFinderResult after delete_small_steps has returned
Finish ==
    /\ pc = "returned"
    /\ run = 0
    /\ result' = [steps_pre |-> steps_arg,
                  steps |-> steps,
                  min_sizes_pre |-> min_arg,
                  min_sizes |-> np_array1(get_min_step_sizes(steps.indices.v, y_c,
                                   fbnl_filter, args.step_size_threshold)),
                  y_c |-> y_c,
                  min_dwell_time |-> min_step_spacing,
                  step_size_threshold |-> effective_threshold(args.step_size_threshold),
                  quality_pre |-> get_step_qualities(steps_arg, fbnl_filter),
                  quality |-> get_step_qualities(steps, fbnl_filter)]
    /\ stdout' = shown(args.verbose, stdout,
                       lines_after_delete(steps_arg, steps, min_step_spacing))
    /\ pc' = "done"
    /\ UNCHANGED <<inputs, beyond, located, call, lists, steps, run, removed>>

\* number == 0: no steps, create one big plateau
NoSteps ==
    /\ pc = "found"
    /\ found.number = 0
    /\ LET one == Steps(np_array1(<<>>), np_array1(<<>>), np_empty02, 0,
                        np_array1(<<0, Len(fbnl_filter.data)>>),
                        np_array1(found.p_centers), np_array1(<<>>),
                        np_array0(Float(SumSeq(fbnl_filter.data))),
                        np_array1(<<>>))
       IN  result' = [steps_pre |-> one, steps |-> one,
                      min_sizes_pre |-> np_array1(<<>>),
                      min_sizes |-> np_array1(<<>>),
                      y_c |-> y_c,
                      min_dwell_time |-> min_step_spacing,
                      step_size_threshold |-> args.step_size_threshold,
                      quality_pre |-> StepQuality(<<>>, <<>>),
                      quality |-> StepQuality(<<>>, <<>>)]
    /\ pc' = "done"
    /\ UNCHANGED <<inputs, beyond, stdout, located, call, lists, steps, run, removed>>

\* ----------------------------------------------------------- specifications
\* a filter result of PipeN samples with window 1 and unit noise
FilterResults ==
    { [data |-> d, step_mass |-> m, noise |-> [k \in 1..PipeN |-> 1],
       noise_mean |-> Float(1), window |-> 1, window_var |-> 1] :
        d \in [1..PipeN -> 0..MaxData],
        m \in [1..PipeN -> (0 - MaxMass)..MaxMass] }

Arguments ==
    [expected_min_step_size : {None, 2},
     expected_min_dwell_t : {None, MaxSpacing},
     switch_accept : BOOLEAN,
     step_size_threshold : {[kind |-> "None", value |-> 0],
                            [kind |-> "float", value |-> 1]},
     verbose : {TRUE}]

\* a call of find_and_analyse_steps
Init ==
    /\ pc = "start"
    /\ fbnl_filter \in FilterResults
    /\ args \in Arguments
    /\ y_c = NoValue /\ min_step_spacing = NoValue /\ found = NoValue
    /\ steps_arg = NoValue /\ min_arg = NoValue
    /\ NoLists
    /\ steps = NoValue /\ result = NoValue
    /\ run = 0 /\ removed = <<>>
    /\ filter_args = NoValue /\ filtered = NoValue
    /\ stdout = <<>> /\ earlier = NoValue /\ scoring = NoValue /\ sweep = NoValue

Next ==
    \/ FindSteps
    \/ AnalyseSteps
    \/ NoSteps
    \/ DeleteEnter
    \/ DeleteRemove
    \/ DeleteKeep
    \/ DeleteReturn
    \/ Finish

Spec == Init /\ [][Next]_vars

\* strictly increasing step indices below MaxN, at most MaxSteps of them
StepIndices ==
    UNION { { s \in [1..n -> 0..(MaxN - 1)] : \A j \in 1..(n - 1) : s[j] < s[j + 1] } :
            n \in 0..MaxSteps }

\* the Steps that find_steps and analyse_steps build for these indices and
\* plateau heights: an empty plateau has the height NaN
ConsistentSteps(idx, h) ==
    LET pl == idx_to_idx_segments(<<0>> \o idx \o <<MaxN>>)
        heights == [k \in 1..Len(pl) |->
                       IF pl[k][1] = pl[k][2] THEN NaN ELSE Float(h[k])]
        sizes == analyse_step_sizes(heights)
    IN  Steps(np_array1(idx),
              np_array1([k \in 1..Len(idx) |-> ~RLess(sizes[k], Float(0))]),
              np_array2([k \in 1..Len(idx) |-> <<idx[k], idx[k] + 1>>]),
              Len(idx), np_array2(pl), np_array1(find_p_centers(pl, MaxN)),
              np_array1(sizes), np_array1(heights),
              np_array1(analyse_dwell_points(idx)))

\* before a direct call of delete_small_steps
InitPrune ==
    /\ pc = "caller"
    /\ fbnl_filter = NoValue /\ args = NoValue
    /\ y_c = NoValue /\ min_step_spacing = NoValue /\ found = NoValue
    /\ steps_arg = NoValue /\ min_arg = NoValue
    /\ NoLists
    /\ steps = NoValue /\ result = NoValue
    /\ run = 1 /\ removed = <<>>
    /\ filter_args = NoValue /\ filtered = NoValue
    /\ stdout = <<>> /\ earlier = NoValue /\ scoring = NoValue /\ sweep = NoValue

\* a direct call of delete_small_steps with consistent Steps and a threshold
\* for every step
DeleteCall ==
    /\ pc = "caller"
    /\ \E idx \in StepIndices :
         /\ \E h \in [1..(Len(idx) + 1) -> 0..MaxHeight] :
              steps_arg' = ConsistentSteps(idx, h)
         /\ \E m \in [1..Len(idx) -> 1..MaxThreshold] :
              min_arg' = np_array1([k \in 1..Len(idx) |-> Float(m[k])])
    /\ pc' = "call"
    /\ UNCHANGED <<inputs, beyond, stdout, located, lists, steps, result, run, removed>>

NextPrune ==
    \/ DeleteCall
    \/ DeleteEnter
    \/ DeleteRemove
    \/ DeleteKeep
    \/ DeleteReturn
    \/ DeleteAgain

SpecPrune == InitPrune /\ [][NextPrune]_vars

\* a call of delete_small_steps that has begun keeps running: the interpreter
\* does not stop inside the function
DeleteRuns == DeleteEnter \/ DeleteRemove \/ DeleteKeep \/ DeleteReturn

FairSpecPrune == SpecPrune /\ WF_vars(DeleteRuns)

\* ------------------------------------------------------------- filter_fbnl
\* the samples of a measured signal
measured(data_) == [k \in 1..Len(data_) |-> real_sample(data_[k])]

\* a call of filter_fbnl on a signal of 1 to MaxFilterN samples
FilterCall ==
    /\ pc = "filter_caller"
    /\ \E N \in 1..MaxFilterN, window \in 1..MaxWindow,
          window_var \in {None} \cup (1..MaxWindow), cap \in BOOLEAN :
         \E d \in [1..N -> 0..1] :
            filter_args' = [data |-> d, window |-> window,
                            window_var |-> window_var, cap_data |-> cap]
    /\ pc' = IF filter_args'.cap_data THEN "cap" ELSE "core"
    /\ UNCHANGED <<fbnl_filter, args, filtered, earlier, scoring, sweep, stdout, located, call,
                   lists, steps, result, run, removed>>

\* _filter_fbnl_capped: window_var, loss, inspect and the call of cap_data
CapData ==
    /\ pc = "cap"
    /\ LET window_var == window_var_or_window(filter_args.window_var, filter_args.window)
       IN  filtered' = [_data |-> cap_data(measured(filter_args.data),
                                           filter_loss(filter_args.window, window_var),
                                           inspect_length(filter_args.window))]
    /\ pc' = "core"
    /\ UNCHANGED <<fbnl_filter, args, filter_args, earlier, scoring, sweep, stdout, located, call,
                   lists, steps, result, run, removed>>

\* _filter_fbnl on the capped or on the measured signal
FilterCore ==
    /\ pc = "core"
    /\ filtered' = _filter_fbnl(IF filter_args.cap_data THEN filtered._data
                                ELSE measured(filter_args.data),
                                filter_args.window, filter_args.window_var)
    /\ pc' = IF filtered'.raised # "None" THEN filtered'.raised
             ELSE IF filter_args.cap_data THEN "trim" ELSE "stats"
    /\ UNCHANGED <<fbnl_filter, args, filter_args, earlier, scoring, sweep, stdout, located, call,
                   lists, steps, result, run, removed>>

\* _filter_fbnl_capped: the caps are cut off every array
TrimCaps ==
    /\ pc = "trim"
    /\ filtered' = trim_caps(filtered, filter_loss(filtered.window, filtered.window_var))
    /\ pc' = "stats"
    /\ UNCHANGED <<fbnl_filter, args, filter_args, earlier, scoring, sweep, stdout, located, call,
                   lists, steps, result, run, removed>>

\* filter_fbnl: step_size, noise, step_mass and the FBNLFilterResult returned
FilterReturn ==
    /\ pc = "stats"
    /\ fbnl_filter' = FBNLFilterResult(filtered)
    /\ pc' = "filtered"
    /\ UNCHANGED <<args, filter_args, filtered, earlier, scoring, sweep, stdout, located, call,
                   lists, steps, result, run, removed>>

\* before a call of filter_fbnl
InitFilter ==
    /\ pc = "filter_caller"
    /\ fbnl_filter = NoValue /\ args = NoValue
    /\ y_c = NoValue /\ min_step_spacing = NoValue /\ found = NoValue
    /\ steps_arg = NoValue /\ min_arg = NoValue
    /\ NoLists
    /\ steps = NoValue /\ result = NoValue
    /\ run = 0 /\ removed = <<>>
    /\ filter_args = NoValue /\ filtered = NoValue
    /\ stdout = <<>> /\ earlier = NoValue /\ scoring = NoValue /\ sweep = NoValue

NextFilter ==
    \/ FilterCall
    \/ CapData
    \/ FilterCore
    \/ TrimCaps
    \/ FilterReturn

SpecFilter == InitFilter /\ [][NextFilter]_vars

\* ------------------------------------------------------- get_min_step_sizes
\* np.nanmean(noise) of a noise without nan
nanmean(noise) == Norm(SumSeq(noise), Len(noise))

\* the step indices a Steps of a signal of N samples can hold, two at most
IndicesBelow(N) ==
    { s \in UNION { [1..n -> 0..(N - 1)] : n \in 0..2 } :
        \A j \in 1..(Len(s) - 1) : s[j] < s[j + 1] }

ThresholdPolicies ==
    { [kind |-> "None", value |-> 0], [kind |-> "adapt", value |-> 0],
      [kind |-> "static", value |-> 0], [kind |-> "float", value |-> 1],
      [kind |-> "float", value |-> 0] }

\* a call of get_min_step_sizes for a filter result of MaxFilterN samples
ThresholdCall ==
    /\ pc = "threshold_caller"
    /\ \E noise \in [1..MaxFilterN -> 1..MaxNoise], window \in 1..MaxWindow,
          window_var \in 1..MaxWindow :
         fbnl_filter' = [noise |-> noise, noise_mean |-> nanmean(noise),
                         window |-> window, window_var |-> window_var]
    /\ \E idx \in IndicesBelow(MaxFilterN), policy \in ThresholdPolicies :
         args' = [indices |-> idx, step_size_threshold |-> policy]
    /\ \E n \in {2, 4} : y_c' = Norm(n, 3)
    /\ pc' = "threshold"
    /\ UNCHANGED <<beyond, stdout, min_step_spacing, found, call, lists, steps,
                   result, run, removed>>

\* get_min_step_sizes: the thresholds returned
MinStepSizes ==
    /\ pc = "threshold"
    /\ min_arg' = np_array1(get_min_step_sizes(args.indices, y_c, fbnl_filter,
                                               args.step_size_threshold))
    /\ pc' = "thresholds"
    /\ UNCHANGED <<inputs, beyond, stdout, located, steps_arg, lists, steps,
                   result, run, removed>>

InitThreshold ==
    /\ pc = "threshold_caller"
    /\ fbnl_filter = NoValue /\ args = NoValue
    /\ y_c = NoValue /\ min_step_spacing = NoValue /\ found = NoValue
    /\ steps_arg = NoValue /\ min_arg = NoValue
    /\ NoLists
    /\ steps = NoValue /\ result = NoValue
    /\ run = 0 /\ removed = <<>>
    /\ filter_args = NoValue /\ filtered = NoValue
    /\ stdout = <<>> /\ earlier = NoValue /\ scoring = NoValue /\ sweep = NoValue

NextThreshold ==
    \/ ThresholdCall
    \/ MinStepSizes

SpecThreshold == InitThreshold /\ [][NextThreshold]_vars

\* ------------------------------------------------------- get_step_qualities
\* the Steps that find_steps and analyse_steps build for these indices on the
\* data of a filter result
AnalysedSteps(idx, data_) ==
    LET pl == idx_to_idx_segments(<<0>> \o idx \o <<Len(data_)>>)
        heights == analyse_plateau_heights(pl, data_)
        sizes == analyse_step_sizes(heights)
    IN  Steps(np_array1(idx),
              np_array1([k \in 1..Len(idx) |-> ~RLess(sizes[k], Float(0))]),
              np_array2([k \in 1..Len(idx) |-> <<idx[k], idx[k] + 1>>]),
              Len(idx), np_array2(pl), np_array1(find_p_centers(pl, Len(data_))),
              np_array1(sizes), np_array1(heights),
              np_array1(analyse_dwell_points(idx)))

\* the noise of a filter result: flat, or higher at every other sample
NoiseShapes == { [k \in 1..MaxQualityN |-> 1], [k \in 1..MaxQualityN |-> 1 + (k % MaxNoise)] }

\* a call of get_step_qualities for a signal of MaxQualityN samples
QualityCall ==
    /\ pc = "quality_caller"
    /\ \E d \in [1..MaxQualityN -> 0..1], noise \in NoiseShapes,
          window \in 1..MaxWindow, window_var \in 1..MaxWindow :
         /\ fbnl_filter' = [data |-> d, noise |-> noise, window |-> window,
                            window_var |-> window_var]
         /\ \E idx \in IndicesBelow(MaxQualityN) : steps_arg' = AnalysedSteps(idx, d)
    /\ pc' = "quality"
    /\ UNCHANGED <<args, beyond, stdout, located, min_arg, lists, steps, result,
                   run, removed>>

\* step_sd and step_noise are arrays of zeros, one entry for every index
QualityEnter ==
    /\ pc = "quality"
    /\ scoring' = [i |-> 0, ranges |-> <<>>,
                   step_sd_squared |-> [k \in 1..Len(steps_arg.indices.v) |-> Float(0)],
                   step_noise |-> [k \in 1..Len(steps_arg.indices.v) |-> Float(0)]]
    /\ pc' = "scoring"
    /\ UNCHANGED <<inputs, filter_args, filtered, earlier, sweep, stdout, located, call,
                   lists, steps, result, run, removed>>

\* one pass of the loop over the joins of adjoining plateaus
QualityStep ==
    /\ pc = "scoring"
    /\ scoring.i < Len(quality_joins(steps_arg.plateaus.v))
    /\ \E s \in {score_join(quality_joins(steps_arg.plateaus.v)[scoring.i + 1],
                            steps_arg, fbnl_filter)} :
         scoring' = [i |-> scoring.i + 1,
                     ranges |-> Append(scoring.ranges, s.ranges),
                     step_sd_squared |-> Put(scoring.step_sd_squared, scoring.i,
                                             s.step_sd_squared),
                     step_noise |-> Put(scoring.step_noise, scoring.i, s.step_noise)]
    /\ UNCHANGED <<pc, inputs, filter_args, filtered, earlier, sweep, stdout, located,
                   call, lists, steps, result, run, removed>>

\* step_noise_over_sd and the StepQuality returned
QualityReturn ==
    /\ pc = "scoring"
    /\ ~(scoring.i < Len(quality_joins(steps_arg.plateaus.v)))
    /\ result' = StepQuality(scoring.step_sd_squared, scoring.step_noise)
    /\ pc' = "qualities"
    /\ UNCHANGED <<inputs, beyond, stdout, located, call, lists, steps, run, removed>>

InitQuality ==
    /\ pc = "quality_caller"
    /\ fbnl_filter = NoValue /\ args = NoValue
    /\ y_c = NoValue /\ min_step_spacing = NoValue /\ found = NoValue
    /\ steps_arg = NoValue /\ min_arg = NoValue
    /\ NoLists
    /\ steps = NoValue /\ result = NoValue
    /\ run = 0 /\ removed = <<>>
    /\ filter_args = NoValue /\ filtered = NoValue
    /\ stdout = <<>> /\ earlier = NoValue /\ scoring = NoValue /\ sweep = NoValue

NextQuality ==
    \/ QualityCall
    \/ QualityEnter
    \/ QualityStep
    \/ QualityReturn

SpecQuality == InitQuality /\ [][NextQuality]_vars

\* -------------------------------- find_and_analyse_steps, the other arguments
\* filter results of PipeN samples with flat noise, windows up to MaxWindow and
\* a step mass that is zero or beyond every threshold
OptionFilterResults ==
    { [data |-> d, step_mass |-> m, noise |-> [k \in 1..PipeN |-> n],
       noise_mean |-> Float(n), window |-> w,
       window_var |-> window_var_or_window(None, w)] :
        d \in [1..PipeN -> 0..MaxData], m \in [1..PipeN -> {0 - BigMass, 0, BigMass}],
        n \in 1..MaxNoise, w \in 1..MaxWindow }

\* the first call is quiet; CallAgain makes the verbose one
OptionArguments ==
    [expected_min_step_size : {None, 1, BigMass},
     expected_min_dwell_t : {None, 1},
     switch_accept : {TRUE},
     step_size_threshold : {[kind |-> "float", value |-> 0],
                            [kind |-> "float", value |-> 1]},
     verbose : {FALSE}]

\* a call of find_and_analyse_steps
InitOptions ==
    /\ pc = "start"
    /\ fbnl_filter \in OptionFilterResults
    /\ args \in OptionArguments
    /\ y_c = NoValue /\ min_step_spacing = NoValue /\ found = NoValue
    /\ steps_arg = NoValue /\ min_arg = NoValue
    /\ NoLists
    /\ steps = NoValue /\ result = NoValue
    /\ run = 0 /\ removed = <<>>
    /\ filter_args = NoValue /\ filtered = NoValue
    /\ stdout = <<>> /\ earlier = NoValue /\ scoring = NoValue /\ sweep = NoValue

\* the caller keeps what the call returned or raised and what it showed, and
\* calls find_and_analyse_steps again with the same arguments but the other
\* value of verbose
CallAgain ==
    /\ pc \in {"done", "ZeroDivisionError"}
    /\ earlier = NoValue
    /\ earlier' = [pc |-> pc, result |-> result, stdout |-> stdout]
    /\ args' = [args EXCEPT !.verbose = ~@]
    /\ y_c' = NoValue /\ min_step_spacing' = NoValue /\ found' = NoValue
    /\ steps_arg' = NoValue /\ min_arg' = NoValue
    /\ step_bounds' = <<>> /\ indices' = <<>> /\ direction' = <<>>
    /\ plateaus' = <<>> /\ p_centers' = <<>> /\ num_steps' = 0
    /\ step_sizes' = <<>> /\ p_heights' = <<>> /\ dwell_points' = <<>>
    /\ minsizes' = <<>> /\ i' = 0
    /\ steps' = NoValue /\ result' = NoValue
    /\ removed' = <<>>
    /\ stdout' = <<>>
    /\ pc' = "start"
    /\ UNCHANGED <<fbnl_filter, filter_args, filtered, scoring, sweep, run>>

NextOptions ==
    \/ FindSteps
    \/ AnalyseSteps
    \/ NoSteps
    \/ DeleteEnter
    \/ DeleteRemove
    \/ DeleteKeep
    \/ DeleteReturn
    \/ Finish
    \/ CallAgain

SpecOptions == InitOptions /\ [][NextOptions]_vars

\* ------------------------- find_and_analyse_steps: the minimum step spacing
\* int(np.round(expected_min_dwell_t * fbnl_filter.resolution))
expected_min_step_spacing(expected_min_dwell_t, resolution) ==
    Round(expected_min_dwell_t[1] * resolution[1], expected_min_dwell_t[2] * resolution[2])

\* as min_step_spacing_at, without the maximum with the window
min_step_spacing_unclamped(expected_min_dwell_t, resolution, window) ==
    IF expected_min_dwell_t = NoValue THEN window
    ELSE expected_min_step_spacing(expected_min_dwell_t, resolution)

\* min_step_spacing = fbnl_filter.window, or the maximum of the expected
\* spacing and the window
min_step_spacing_at(expected_min_dwell_t, resolution, window) ==
    IF expected_min_dwell_t = NoValue THEN window
    ELSE Max(expected_min_step_spacing(expected_min_dwell_t, resolution), window)

\* min_dwell_time = min_step_spacing / fbnl_filter.resolution
min_dwell_time_of(spacing, resolution) ==
    Norm(spacing * resolution[2], resolution[1])

\* dwell times in quarters of a second, and no dwell time (None of a float
\* argument is NoValue)
DwellTimes == {NoValue} \cup { Norm(k, 4) : k \in 0..MaxQuarters }

\* resolutions in Hz
Resolutions == {Norm(1, 2)} \cup { Float(k) : k \in 1..MaxResolution }

\* a call of find_and_analyse_steps with a filter result of this resolution
\* and window
SpacingCall ==
    /\ pc = "spacing_caller"
    /\ \E t \in DwellTimes, resolution \in Resolutions, window \in 1..(MaxWindow + 1) :
         /\ fbnl_filter' = [resolution |-> resolution, window |-> window]
         /\ args' = [expected_min_dwell_t |-> t]
    /\ pc' = "spacing"
    /\ UNCHANGED <<beyond, stdout, located, call, lists, steps, result, run, removed>>

\* min_step_spacing and min_dwell_time as find_and_analyse_steps sets them
SelectSpacing ==
    /\ pc = "spacing"
    /\ min_step_spacing' = min_step_spacing_at(args.expected_min_dwell_t,
                                               fbnl_filter.resolution, fbnl_filter.window)
    /\ result' = [min_dwell_time |-> min_dwell_time_of(min_step_spacing',
                                                       fbnl_filter.resolution)]
    /\ pc' = "spaced"
    /\ UNCHANGED <<inputs, beyond, stdout, y_c, found, call, lists, steps, run, removed>>

InitSpacing ==
    /\ pc = "spacing_caller"
    /\ fbnl_filter = NoValue /\ args = NoValue
    /\ y_c = NoValue /\ min_step_spacing = NoValue /\ found = NoValue
    /\ steps_arg = NoValue /\ min_arg = NoValue
    /\ NoLists
    /\ steps = NoValue /\ result = NoValue
    /\ run = 0 /\ removed = <<>>
    /\ filter_args = NoValue /\ filtered = NoValue
    /\ stdout = <<>> /\ earlier = NoValue /\ scoring = NoValue /\ sweep = NoValue

NextSpacing ==
    \/ SpacingCall
    \/ SelectSpacing

SpecSpacing == InitSpacing /\ [][NextSpacing]_vars

\* -------------------------------------------------- filter_find_analyse_steps
\* a or b for float arguments that are None (NoValue) or positive
or_else(a, b) == IF a = NoValue THEN b ELSE a

\* a * b on floats
RTimes(a, b) == IF IsNaN(a) \/ IsNaN(b) THEN NaN ELSE Norm(a[1] * b[1], a[2] * b[2])

\* min(a, b) on floats
RMin(a, b) == IF RLess(b, a) THEN b ELSE a

\* np.round(np.sqrt(x)) for a float x >= 0
round_sqrt(x) ==
    CHOOSE r \in 0..(x[1] + 1) :
        /\ (r = 0 \/ (2 * r - 1) * (2 * r - 1) * x[2] <= 4 * x[1])
        /\ 4 * x[1] < (2 * r + 1) * (2 * r + 1) * x[2]

\* np.unique: the sorted array of the values
np_unique(S) ==
    CHOOSE s \in [1..Cardinality(S) -> S] : \A j \in 1..(Cardinality(S) - 1) : s[j] < s[j + 1]

\* np.round(np.logspace(log10(start), log10(stop), number)) for number <= 3:
\* start, the geometric mean of start and stop, stop
log_spaced_ints(start, stop, number) ==
    np_unique(IF number = 1 THEN {Round(start[1], start[2])}
              ELSE {Round(start[1], start[2]), Round(stop[1], stop[2])}
                   \cup (IF number = 3 THEN {round_sqrt(RTimes(start, stop))} ELSE {}))

\* tmax or tmin, number or 1, tmin * resolution, tmax * resolution
log_spaced_time_windows(tmin, tmax, resolution, number) ==
    log_spaced_ints(RTimes(tmin, resolution), RTimes(or_else(tmax, tmin), resolution),
                    IF number = None THEN 1 ELSE number)

\* max(int(np.round(filter_time * resolution)), 1)
window_edge(filter_time, resolution) ==
    Max(Round(filter_time[1] * resolution[1], filter_time[2] * resolution[2]), 1)

\* the set of the values of an array
Values(s) == { s[k] : k \in 1..Len(s) }

\* the candidate windows: the log spaced ones and, if filter_time is given,
\* window_edge
candidate_windows(a) ==
    LET filter_max_t == or_else(a.filter_max_t, a.filter_time)
        filter_min_t == or_else(a.filter_min_t, RMin(a.filter_time, filter_max_t))
        windows == log_spaced_time_windows(filter_min_t, filter_max_t, a.resolution,
                                           a.filter_number)
    IN  IF a.filter_time # NoValue
        THEN np_unique(Values(windows) \cup {window_edge(a.filter_time, a.resolution)})
        ELSE windows

\* min(filter_time, filter_max_t) with None raises TypeError, which the bare
\* except turns into a message and return
no_filter_time(a) == a.filter_min_t = NoValue /\ a.filter_time = NoValue

\* int(np.round(np.mean(windows[idx]) * 4/5)) for the windows of minimal STD
window_at_STD_minimum(windows, STDs) ==
    LET idx == { k \in 1..Len(STDs) : \A j \in 1..Len(STDs) : STDs[k] <= STDs[j] }
    IN  Round(4 * SumSeq([k \in 1..Len(windows) |-> IF k \in idx THEN windows[k] ELSE 0]),
              5 * Cardinality(idx))

\* as selected_window, always by the minimum of the STDs
selected_window_by_STD(a, windows, STDs) == window_at_STD_minimum(windows, STDs)

\* the window of the last run: windows[i_window], or the one the STDs select
selected_window(a, windows, STDs) ==
    IF a.filter_time = NoValue THEN window_at_STD_minimum(windows, STDs)
    ELSE window_edge(a.filter_time, a.resolution)

\* the arguments of filter_find_analyse_steps that decide the windows
SweepArguments ==
    [filter_time : {NoValue, Norm(1, 4), Float(1), Float(2)},
     filter_min_t : {NoValue, Float(1)},
     filter_max_t : {NoValue, Float(MaxSweepTime)},
     filter_number : {None} \cup (1..3),
     resolution : {Float(1), Float(2)},
     verbose : BOOLEAN,
     plot : BOOLEAN]

\* a call of filter_find_analyse_steps
SweepCall ==
    /\ pc = "sweep_caller"
    /\ \E a \in SweepArguments :
         sweep' = [args |-> a, windows |-> <<>>, STDs |-> <<>>, calls |-> <<>>,
                   window |-> None]
    /\ pc' = "candidates"
    /\ UNCHANGED <<inputs, filter_args, filtered, earlier, scoring, stdout, located,
                   call, lists, steps, result, run, removed>>

\* filter_max_t, filter_min_t and the windows, or the message and return
SweepWindows ==
    /\ pc = "candidates"
    /\ IF no_filter_time(sweep.args)
       THEN /\ stdout' = Append(stdout, "You have to give at least one filter_time")
            /\ pc' = "returned None"
            /\ UNCHANGED sweep
       ELSE /\ sweep' = [sweep EXCEPT !.windows = candidate_windows(sweep.args)]
            /\ pc' = "sweeping"
            /\ UNCHANGED stdout
    /\ UNCHANGED <<inputs, filter_args, filtered, earlier, scoring, located,
                   call, lists, steps, result, run, removed>>

\* one pass of the loop over the windows: filter_fbnl and
\* find_and_analyse_steps (verbose=False) with this window; either may raise;
\* the STD of the filter result is kept
SweepRun ==
    /\ pc = "sweeping"
    /\ Len(sweep.STDs) < Len(sweep.windows)
    /\ \E window \in {sweep.windows[Len(sweep.STDs) + 1]} :
         \/ /\ sweep' = [sweep EXCEPT !.calls = Append(@, <<"filter_fbnl", window>>)]
            /\ pc' = "raised"
         \/ /\ sweep' = [sweep EXCEPT !.calls = @ \o <<<<"filter_fbnl", window>>,
                                            <<"find_and_analyse_steps", window, FALSE>>>>]
            /\ pc' = "raised"
         \/ \E STD \in 1..MaxSTD :
              /\ sweep' = [sweep EXCEPT !.calls = @ \o <<<<"filter_fbnl", window>>,
                                              <<"find_and_analyse_steps", window, FALSE>>>>,
                                        !.STDs = Append(@, STD)]
              /\ pc' = "sweeping"
    /\ UNCHANGED <<inputs, filter_args, filtered, earlier, scoring, stdout, located,
                   call, lists, steps, result, run, removed>>

\* after the loop: the window of the last run
SelectWindow ==
    /\ pc = "sweeping"
    /\ ~(Len(sweep.STDs) < Len(sweep.windows))
    /\ sweep' = [sweep EXCEPT !.window = selected_window(sweep.args, sweep.windows,
                                                         sweep.STDs)]
    /\ pc' = "selected"
    /\ UNCHANGED <<inputs, filter_args, filtered, earlier, scoring, stdout, located,
                   call, lists, steps, result, run, removed>>

\* filter_fbnl and find_and_analyse_steps with the selected window; the
\* step_finder_result is named by the position of its call
FinalRun ==
    /\ pc = "selected"
    /\ \/ /\ sweep' = [sweep EXCEPT !.calls = Append(@, <<"filter_fbnl", sweep.window>>)]
          /\ pc' = "raised"
          /\ UNCHANGED result
       \/ /\ sweep' = [sweep EXCEPT !.calls = @ \o <<<<"filter_fbnl", sweep.window>>,
                          <<"find_and_analyse_steps", sweep.window, sweep.args.verbose>>>>]
          /\ \/ pc' = "raised" /\ UNCHANGED result
             \/ /\ pc' = "swept"
                /\ result' = IF sweep.args.plot
                             THEN <<[step_finder_result |-> Len(sweep'.calls)], "fig">>
                             ELSE <<[step_finder_result |-> Len(sweep'.calls)]>>
    /\ UNCHANGED <<inputs, filter_args, filtered, earlier, scoring, stdout, located,
                   call, lists, steps, run, removed>>

InitSweep ==
    /\ pc = "sweep_caller"
    /\ fbnl_filter = NoValue /\ args = NoValue
    /\ y_c = NoValue /\ min_step_spacing = NoValue /\ found = NoValue
    /\ steps_arg = NoValue /\ min_arg = NoValue
    /\ NoLists
    /\ steps = NoValue /\ result = NoValue
    /\ run = 0 /\ removed = <<>>
    /\ filter_args = NoValue /\ filtered = NoValue
    /\ stdout = <<>> /\ earlier = NoValue /\ scoring = NoValue /\ sweep = NoValue

NextSweep ==
    \/ SweepCall
    \/ SweepWindows
    \/ SweepRun
    \/ SelectWindow
    \/ FinalRun

SpecSweep == InitSweep /\ [][NextSweep]_vars

\* ------------------------------------------------- _filter_fbnl: the weights
\* p = p or 1: None and 0 are falsy
edginess_or_one(p) == IF p = None \/ p = 0 THEN 1 ELSE p

\* variance ** (-p) for a variance >= 0 and an integer p >= 0: 1 for p = 0,
\* inf for the variance 0
inverse_power(variance, p) ==
    IF p = 0 THEN Float(1)
    ELSE IF variance = 0 THEN Inf
    ELSE Norm(1, IF p = 1 THEN variance ELSE variance * variance)

\* total = f + b
weights_total(f, b) == IF f = Inf \/ b = Inf THEN Inf ELSE RAdd(f, b)

\* f / total: inf / inf is nan, a finite weight over inf is 0
normed_weight(w, total) ==
    IF w = Inf THEN NaN
    ELSE IF total = Inf THEN Float(0)
    ELSE Norm(w[1] * total[2], w[2] * total[1])

\* f * xf + b * xb
weighted_sum(f, xf, b, xb) == RAdd(RMul(f, xf), RMul(b, xb))

\* the weights and the filtered value of one point from its variances sf and
\* sb and its forward and backward means
filter_point(p_, sf, sb, xf, xb) ==
    LET p == edginess_or_one(p_)
        f == inverse_power(sf, p)
        b == inverse_power(sb, p)
        total == weights_total(f, b)
    IN  [p |-> p, f |-> normed_weight(f, total), b |-> normed_weight(b, total),
         data_filtered |-> weighted_sum(normed_weight(f, total), xf,
                                        normed_weight(b, total), xb)]

\* a call of the filter with an edginess, seen at one point of the data
WeightsCall ==
    /\ pc = "weights_caller"
    /\ \E p \in {None} \cup (0..2), sf \in 0..MaxVariance, sb \in 0..MaxVariance,
          xf \in 0..MaxData, xb \in 0..MaxData :
         filter_args' = [p |-> p, sf |-> sf, sb |-> sb, xf |-> xf, xb |-> xb]
    /\ pc' = "weights"
    /\ UNCHANGED <<inputs, filtered, earlier, scoring, sweep, stdout, located, call,
                   lists, steps, result, run, removed>>

\* the weights and the filtered value
Weigh ==
    /\ pc = "weights"
    /\ filtered' = filter_point(filter_args.p, filter_args.sf, filter_args.sb,
                                filter_args.xf, filter_args.xb)
    /\ pc' = "weighted"
    /\ UNCHANGED <<inputs, filter_args, earlier, scoring, sweep, stdout, located, call,
                   lists, steps, result, run, removed>>

InitWeights ==
    /\ pc = "weights_caller"
    /\ fbnl_filter = NoValue /\ args = NoValue
    /\ y_c = NoValue /\ min_step_spacing = NoValue /\ found = NoValue
    /\ steps_arg = NoValue /\ min_arg = NoValue
    /\ NoLists
    /\ steps = NoValue /\ result = NoValue
    /\ run = 0 /\ removed = <<>>
    /\ filter_args = NoValue /\ filtered = NoValue
    /\ stdout = <<>> /\ earlier = NoValue /\ scoring = NoValue /\ sweep = NoValue

NextWeights ==
    \/ WeightsCall
    \/ Weigh

SpecWeights == InitWeights /\ [][NextWeights]_vars

\* ------------------------------------------------------------------- claims
InDelete == pc \in {"loop", "returned"}

\* C1 as stated: at loop entry and after every removal len(step_sizes) ==
\* num_steps, len(p_heights) == num_steps + 1 and len(dwell_points) ==
\* num_steps - 1, also when num_steps has come down to 0 (for Steps that
\* satisfy this when they are handed over).
C1_AsStated ==
    (InDelete /\ Len(steps_arg.dwell_points.v) = steps_arg.number - 1) =>
        /\ Len(step_sizes) = num_steps
        /\ Len(p_heights) = num_steps + 1
        /\ Len(dwell_points) = num_steps - 1

\* C1 amended: in delete_small_steps, at loop entry and after every removal,
\* len(step_sizes) == num_steps, len(p_heights) == num_steps + 1 and
\* len(dwell_points) == max(num_steps - 1, 0): with no step left the list of
\* dwell points is empty.
C1_Lengths ==
    InDelete =>
        /\ Len(step_sizes) = num_steps
        /\ Len(p_heights) = num_steps + 1
        /\ Len(dwell_points) = Max(num_steps - 1, 0)

\* removals have brought three steps down to none, the last one removed being
\* the only step left
C1_Witness ==
    /\ pc = "loop"
    /\ run = 1
    /\ steps_arg.number = 3
    /\ removed[1] = 3
    /\ num_steps = 0

SizesAreDifferences(sizes, heights) ==
    /\ Len(heights) = Len(sizes) + 1
    /\ \A k \in 1..Len(sizes) : REq(sizes[k], RSub(heights[k + 1], heights[k]))

\* C2: if the Steps handed to delete_small_steps satisfy step_sizes[i] =
\* plateau_heights[i+1] - plateau_heights[i] for every i, the working lists
\* satisfy it after every removal and so does the Steps value returned.
C2_StepSizes ==
    (InDelete /\ SizesAreDifferences(steps_arg.step_sizes.v, steps_arg.plateau_heights.v))
        => /\ SizesAreDifferences(step_sizes, p_heights)
           /\ pc = "returned" =>
                SizesAreDifferences(steps.step_sizes.v, steps.plateau_heights.v)

\* the middle one of three steps was removed, both neighbours were recomputed
\* and survive with sizes that differ from the ones they came with
C2_Witness ==
    /\ pc = "returned"
    /\ run = 1
    /\ steps_arg.number = 3
    /\ SizesAreDifferences(steps_arg.step_sizes.v, steps_arg.plateau_heights.v)
    /\ steps.indices.v = <<steps_arg.indices.v[1], steps_arg.indices.v[3]>>
    /\ steps.step_sizes.v[1] # steps_arg.step_sizes.v[1]
    /\ steps.step_sizes.v[2] # steps_arg.step_sizes.v[3]

DwellsAreGaps(dwells, idx) ==
    /\ Len(dwells) = Max(Len(idx) - 1, 0)
    /\ \A j \in 1..Len(dwells) : dwells[j] = idx[j + 1] - idx[j]

\* C4: if the Steps handed to delete_small_steps satisfy dwell_points[j] =
\* indices[j+1] - indices[j] for every j, the working lists satisfy it after
\* every removal (an interior removal sums the two adjacent entries, removing
\* the first or the last step drops the first or the last entry).
C4_DwellPoints ==
    (InDelete /\ DwellsAreGaps(steps_arg.dwell_points.v, steps_arg.indices.v))
        => DwellsAreGaps(dwell_points, indices)

\* the middle one of three steps was removed: one dwell entry is left, the sum
\* of the two the call came with
C4_Witness ==
    /\ pc = "loop"
    /\ run = 1
    /\ steps_arg.number = 3
    /\ removed[1] = 1
    /\ indices = <<steps_arg.indices.v[1], steps_arg.indices.v[3]>>
    /\ dwell_points = <<steps_arg.dwell_points.v[1] + steps_arg.dwell_points.v[2]>>

\* C5: delete_small_steps applied to the Steps it returned, with the
\* thresholds of the surviving steps, removes no step and returns arrays equal
\* to its input.
C5_Idempotent ==
    (pc = "returned" /\ run = 2) => (removed[2] = 0 /\ steps = steps_arg)

\* the first call removed a step and left two, the second call has returned
C5_Witness ==
    /\ pc = "returned"
    /\ run = 2
    /\ removed[1] >= 1
    /\ steps_arg.number = 2

\* C7: the loop of delete_small_steps terminates: the call returns, after at
\* most as many removals as the Steps it was handed have steps.
C7_Terminates ==
    (pc = "loop") ~>
        (pc = "returned" /\ removed[Len(removed)] <= steps_arg.number)

\* a call has returned after the cursor was moved back three times, once for
\* each of the three steps
C7_Witness ==
    /\ pc = "returned"
    /\ run = 1
    /\ steps_arg.number = 3
    /\ removed[1] = 3

PlateausOfIndices(pl, idx, N) ==
    /\ Len(pl) = Len(idx) + 1
    /\ \A k \in 1..Len(pl) :
         pl[k] = <<IF k = 1 THEN 0 ELSE idx[k - 1],
                   IF k = Len(pl) THEN N ELSE idx[k]>>

CoverWithoutGap(pl, N) ==
    /\ pl[1][1] = 0
    /\ pl[Len(pl)][2] = N
    /\ \A k \in 1..(Len(pl) - 1) : pl[k][2] = pl[k + 1][1]
    /\ \A k \in 1..Len(pl) : pl[k][1] <= pl[k][2]

\* C3: in the output of find_steps and after every removal of
\* delete_small_steps plateau i is (indices[i-1], indices[i]), with 0 before
\* the first and N after the last step, so the plateaus are contiguous and
\* cover [0, N) without gap or overlap.
C3_Plateaus ==
    /\ pc = "found" =>
         /\ PlateausOfIndices(found.plateaus, found.indices, Len(fbnl_filter.step_mass))
         /\ CoverWithoutGap(found.plateaus, Len(fbnl_filter.step_mass))
    /\ (InDelete /\ run = 0) =>
         /\ PlateausOfIndices(plateaus, indices, Len(fbnl_filter.step_mass))
         /\ CoverWithoutGap(plateaus, Len(fbnl_filter.step_mass))

\* find_steps found three steps and delete_small_steps has removed the middle
\* one: two plateaus were fused between two surviving steps
C3_Witness ==
    /\ pc = "loop"
    /\ run = 0
    /\ found.number = 3
    /\ removed[1] = 1
    /\ indices = <<found.indices[1], found.indices[3]>>

\* len(a) == n, which fails for a 0-d array
HasLen(a, n) == a.shape # <<>> /\ a.shape[1] = n

\* C6 as stated: for every result of find_and_analyse_steps steps.number <=
\* steps_pre.number, and len(plateau_heights) == number + 1 holds for
\* steps_pre and for steps, also for a result with number == 0.
C6_AsStated ==
    pc = "done" =>
        /\ result.steps.number <= result.steps_pre.number
        /\ HasLen(result.steps_pre.plateau_heights, result.steps_pre.number + 1)
        /\ HasLen(result.steps.plateau_heights, result.steps.number + 1)

StrictlyIncreasing(s) == \A j \in 1..(Len(s) - 1) : s[j] < s[j + 1]

\* C8 as stated: for every step-mass array and every y_c > 0 find_steps
\* returns strictly increasing indices, number == len(indices) and number + 1
\* plateaus.
C8_AsStated ==
    pc # "start" =>
        /\ pc # "ZeroDivisionError"
        /\ StrictlyIncreasing(found.indices)
        /\ found.number = Len(found.indices)
        /\ Len(found.plateaus) = found.number + 1

\* the center of mass of start..stop-1 weighted by |step_mass|, rounded to the
\* nearest integer and clamped into [start, stop - 1]
abs_center_of_mass(step_mass_, start, stop) ==
    LET w == [j \in 1..(stop - start) |-> Abs(step_mass_[start + j])]
        c == Round(weighted_index_sum(w, start), SumSeq(w))
    IN  Min(stop - 1, Max(start, c))

\* C9 as stated: find_steps produces for every final bin (start, stop) a step
\* index, the center of mass of start..stop-1 weighted by |step_mass|, rounded
\* and clamped into [start, stop - 1], also for bins of mixed sign.
C9_AsStated ==
    pc # "start" =>
        /\ pc # "ZeroDivisionError"
        /\ Len(found.indices) = Len(found.step_bounds)
        /\ \A k \in 1..Len(found.step_bounds) :
             found.indices[k] = abs_center_of_mass(fbnl_filter.step_mass,
                                    found.step_bounds[k][1], found.step_bounds[k][2])

RECURSIVE HeightsTimesLengths(_, _, _)
\* sum of plateau_heights[k] * length of plateau k over the plateaus from k on
HeightsTimesLengths(heights, pl, k) ==
    IF k > Len(pl) THEN Float(0)
    ELSE RAdd(RMul(heights[k], pl[k][2] - pl[k][1]),
              HeightsTimesLengths(heights, pl, k + 1))

HeightsAreMeans(heights, pl, data_) ==
    \A k \in 1..Len(pl) :
        /\ ~IsNaN(heights[k])
        /\ heights[k][1] * (pl[k][2] - pl[k][1])
               = heights[k][2] * SumSeq(Slice(data_, pl[k][1], pl[k][2]))

NoEmptyPlateau(pl) == \A k \in 1..Len(pl) : pl[k][1] < pl[k][2]

\* C10 as stated: for the output of analyse_steps on plateaus that partition
\* [0, N) the sum of plateau_heights[i] times the plateau length equals the sum
\* of the data, each height being the mean of the data over its plateau.
C10_AsStated ==
    (pc = "call" /\ run = 0 /\ CoverWithoutGap(steps_arg.plateaus.v, Len(fbnl_filter.data)))
        => /\ REq(HeightsTimesLengths(steps_arg.plateau_heights.v, steps_arg.plateaus.v, 1),
                  Float(SumSeq(fbnl_filter.data)))
           /\ HeightsAreMeans(steps_arg.plateau_heights.v, steps_arg.plateaus.v,
                              fbnl_filter.data)

\* C10 amended: for the output of analyse_steps on plateaus that partition
\* [0, N) and of which none is empty, the sum of plateau_heights[i] times the
\* plateau length equals the sum of the data, each height being the mean of the
\* data over its plateau (the height of an empty plateau is NaN).
C10_HeightsSum ==
    (/\ pc = "call" /\ run = 0
     /\ CoverWithoutGap(steps_arg.plateaus.v, Len(fbnl_filter.data))
     /\ NoEmptyPlateau(steps_arg.plateaus.v))
        => /\ REq(HeightsTimesLengths(steps_arg.plateau_heights.v, steps_arg.plateaus.v, 1),
                  Float(SumSeq(fbnl_filter.data)))
           /\ HeightsAreMeans(steps_arg.plateau_heights.v, steps_arg.plateaus.v,
                              fbnl_filter.data)

\* analyse_steps has returned for two steps and three plateaus, none empty, of
\* which one has a height that is no integer
C10_Witness ==
    /\ pc = "call"
    /\ run = 0
    /\ steps_arg.number = 2
    /\ NoEmptyPlateau(steps_arg.plateaus.v)
    /\ \E k \in 1..3 : steps_arg.plateau_heights.v[k][2] = 2

\* C11 as stated: when find_steps detects no step find_and_analyse_steps
\* returns without error a result with number == 0, plateaus holds exactly the
\* one row (0, N) and plateau_heights exactly one entry, the mean of the data
\* over [0, N).
C11_AsStated ==
    (pc = "done" /\ found.number = 0) =>
        /\ result.steps.number = 0
        /\ result.steps.plateaus.shape = <<1, 2>>
        /\ result.steps.plateaus.v = <<<<0, Len(fbnl_filter.data)>>>>
        /\ HasLen(result.steps.plateau_heights, 1)
        /\ result.steps.plateau_heights.v
               = <<plateau_height(fbnl_filter.data, 0, Len(fbnl_filter.data))>>

\* the signal handed to filter_fbnl is shorter than 2 * (window + window_var)
TooShort ==
    /\ filter_args # NoValue
    /\ Len(filter_args.data)
         < 2 * (filter_args.window
                + window_var_or_window(filter_args.window_var, filter_args.window))

\* C12 as stated: a call of the filter on a signal shorter than
\* 2 * (window + window_var) is rejected with an InsufficientDataError before
\* any result is produced, and no FilterResult is returned.
C12_AsStated ==
    TooShort =>
        /\ pc \notin {"trim", "stats", "filtered", "IndexError", "ValueError"}
        /\ fbnl_filter = NoValue

\* the values of the first n and of the last n samples of a signal
FirstValues(data_, n) == [k \in 1..Min(n, Len(data_)) |-> data_[k]]

LastValues(data_, n) ==
    [k \in 1..Min(n, Len(data_)) |-> data_[Len(data_) - Min(n, Len(data_)) + k]]

\* the caps of the extended signal: loss synthetic samples at each end, drawn
\* after the same number of measured samples
CapsOfEqualFit(ext, data_, loss, n) ==
    /\ Len(ext) = Len(data_) + 2 * loss
    /\ \A k \in 1..loss :
         /\ ext[k].synthetic
         /\ ext[k].from = FirstValues(data_, n)
         /\ ext[Len(data_) + loss + k].synthetic
         /\ ext[Len(data_) + loss + k].from = LastValues(data_, n)
    /\ \A k \in 1..Len(data_) : ext[loss + k] = real_sample(data_[k])

\* every array of the filter result has N entries and data is the signal
OriginalLength(res, data_) ==
    /\ res.data = measured(data_)
    /\ \A a \in {res.data_filtered, res.sf, res.sb, res.f, res.b, res.xf, res.xb,
                 res.step_mass, res.step_size, res.noise} : Len(a) = Len(data_)

\* C20 as stated: with end-capping each end of the signal is extended by loss
\* = window + window_var - 1 synthetic samples whose distribution parameters
\* come from the same number of measured samples at both ends, the first and
\* the last ceil(window / 2), and after filtering loss samples are trimmed
\* from each end, so every output array has the original length N.
C20_AsStated ==
    (filter_args # NoValue /\ filter_args.cap_data) =>
        /\ pc = "core" =>
             CapsOfEqualFit(filtered._data, filter_args.data,
                 filter_loss(filter_args.window,
                     window_var_or_window(filter_args.window_var, filter_args.window)),
                 inspect_length(filter_args.window))
        /\ pc = "filtered" => OriginalLength(fbnl_filter, filter_args.data)

\* the mean of the noise over [s - (window + window_var), s + (window +
\* window_var)), clamped to the valid region of the filter
NoiseAround(s, fbnl) ==
    LET start_min == fbnl.window + fbnl.window_var - 1
        stop_max == Len(fbnl.noise) - start_min
        start == Max(s - (fbnl.window + fbnl.window_var), start_min)
        stop == Min(s + (fbnl.window + fbnl.window_var), stop_max)
    IN  Norm(SumSeq(Slice(fbnl.noise, start, stop)), Max(stop - start, 0))

\* C13 as stated: under 'adapt' the threshold of a step at index s is y_c
\* times the mean of the noise within +-(window + window_var) samples of s,
\* clamped to the valid region of the filter; under 'static' every step gets
\* y_c * noise_mean; under a float every step gets that float.
C13_AsStated ==
    pc = "thresholds" =>
        \A k \in 1..Len(args.indices) :
            min_arg.v[k] =
                IF args.step_size_threshold.kind \in {"None", "adapt"}
                THEN scale_by_y_c(y_c, NoiseAround(args.indices[k], fbnl_filter))
                ELSE IF args.step_size_threshold.kind = "static"
                THEN scale_by_y_c(y_c, fbnl_filter.noise_mean)
                ELSE Float(args.step_size_threshold.value)

\* the samples of the left and of the right range of a step
LeftSamples(r) == r.start_l..(r.stop_l - 1)

RightSamples(r) == r.start_r..(r.stop_r - 1)

\* the samples of plateau p, and the sample in its middle
InPlateau(j, p) == p[1] <= j /\ j < p[2]

Midpoint(p) == plateau_center(p[1], p[2])

\* C17 as stated: get_step_qualities scores exactly the number - 1 interior
\* joins of plateaus, and the two outer plateaus, the first and the last one,
\* contribute no samples to the step_sd or step_noise of any step.
C17_AsStated ==
    (pc = "qualities" /\ steps_arg.number >= 1) =>
        /\ Len(scoring.ranges) = steps_arg.number - 1
        /\ \A k \in 1..Len(scoring.ranges) :
             \A j \in LeftSamples(scoring.ranges[k]) \cup RightSamples(scoring.ranges[k]) :
                /\ ~InPlateau(j, steps_arg.plateaus.v[1])
                /\ ~InPlateau(j, steps_arg.plateaus.v[Len(steps_arg.plateaus.v)])

\* C17 amended: get_step_qualities scores exactly the number joins of
\* adjoining plateaus, one for every step; step k takes its samples from
\* plateau k and plateau k + 1 only, so that the two outer plateaus contribute
\* to the first and to the last step, but with the half next to the step only:
\* the outer halves of the two outer plateaus contribute no samples.
C17_Joins ==
    pc = "qualities" =>
        /\ Len(scoring.ranges) = steps_arg.number
        /\ \A k \in 1..Len(scoring.ranges) :
             LET first == steps_arg.plateaus.v[1]
                 last == steps_arg.plateaus.v[Len(steps_arg.plateaus.v)]
             IN  /\ \A j \in LeftSamples(scoring.ranges[k]) :
                        /\ InPlateau(j, steps_arg.plateaus.v[k])
                        /\ ~(InPlateau(j, first) /\ j < Midpoint(first))
                 /\ \A j \in RightSamples(scoring.ranges[k]) :
                        /\ InPlateau(j, steps_arg.plateaus.v[k + 1])
                        /\ ~(InPlateau(j, last) /\ j >= Midpoint(last))

\* the only step of a signal was scored with samples of the first and of the
\* last plateau
C17_Witness ==
    /\ pc = "qualities"
    /\ steps_arg.number = 1
    /\ LeftSamples(scoring.ranges[1]) # {}
    /\ RightSamples(scoring.ranges[1]) # {}

\* the residual of the only sample of a step of total_number 1 is zero
OnlySampleOnHeight(r, k) ==
    IF r.start_l < r.stop_l
    THEN Float(fbnl_filter.data[r.start_l + 1]) = steps_arg.plateau_heights.v[k]
    ELSE Float(fbnl_filter.data[r.start_r + 1]) = steps_arg.plateau_heights.v[k + 1]

\* C18 as stated: whenever the two half-plateau ranges of a step are empty or
\* the denominator total_number - 1 of the standard deviation is zero,
\* step_noise_over_sd of that step is NaN, and no error is raised.
C18_AsStated ==
    pc = "qualities" =>
        \A k \in 1..Len(scoring.ranges) :
            (total_number(scoring.ranges[k]) = 0 \/ total_number(scoring.ranges[k]) - 1 = 0)
                => result.step_noise_over_sd_squared[k] = NaN

\* C18 amended: whenever the two half-plateau ranges of a step are empty
\* step_noise_over_sd of that step is NaN; whenever the denominator
\* total_number - 1 is zero, step_sd is inf and step_noise_over_sd is 0 if the
\* only sample differs from the height of its plateau, and both are NaN if it
\* equals it; no error is raised.
C18_Ratio ==
    pc = "qualities" =>
        \A k \in 1..Len(scoring.ranges) :
            /\ total_number(scoring.ranges[k]) = 0
                 => result.step_noise_over_sd_squared[k] = NaN
            /\ total_number(scoring.ranges[k]) - 1 = 0
                 => IF OnlySampleOnHeight(scoring.ranges[k], k)
                    THEN /\ result.step_sd_squared[k] = NaN
                         /\ result.step_noise_over_sd_squared[k] = NaN
                    ELSE /\ result.step_sd_squared[k] = Inf
                         /\ result.step_noise_over_sd_squared[k] = Float(0)

\* the qualities of two steps were returned: those of a step without samples
\* and those of a step whose only sample does not lie on the height of its
\* plateau
C18_Witness ==
    /\ pc = "qualities"
    /\ \E k \in 1..Len(scoring.ranges) : total_number(scoring.ranges[k]) = 0
    /\ \E k \in 1..Len(scoring.ranges) :
         /\ total_number(scoring.ranges[k]) = 1
         /\ result.step_sd_squared[k] = Inf

\* C19: in get_step_qualities, for every step the left range [start_l, stop_l)
\* and the right range [start_r, stop_r) satisfy start <= stop, and every index
\* of a non-empty range lies inside its own plateau, at least window samples
\* away from the step, at or after the middle of the plateau (left) or before
\* it (right), not below the minimum valid index window + window_var - 1 of
\* the filter (left) and below N - (window + window_var - 1) (right).
C19_Ranges ==
    pc \in {"scoring", "qualities"} =>
        \A k \in 1..Len(scoring.ranges) :
            LET r == scoring.ranges[k]
                p_l == steps_arg.plateaus.v[k]
                p_r == steps_arg.plateaus.v[k + 1]
                step == steps_arg.indices.v[k]
                start_min == fbnl_filter.window + fbnl_filter.window_var - 1
            IN  /\ r.start_l <= r.stop_l
                /\ r.start_r <= r.stop_r
                /\ \A j \in LeftSamples(r) :
                     /\ InPlateau(j, p_l)
                     /\ step - j >= fbnl_filter.window
                     /\ j >= Midpoint(p_l)
                     /\ j >= start_min
                /\ \A j \in RightSamples(r) :
                     /\ InPlateau(j, p_r)
                     /\ j - step >= fbnl_filter.window
                     /\ j < Midpoint(p_r)
                     /\ j < Len(fbnl_filter.noise) - start_min

\* a step was scored whose two ranges both hold samples, for a filter whose
\* first valid index is 2
C19_Witness ==
    /\ pc = "qualities"
    /\ fbnl_filter.window + fbnl_filter.window_var - 1 = 2
    /\ \E k \in 1..Len(scoring.ranges) :
         /\ LeftSamples(scoring.ranges[k]) # {}
         /\ RightSamples(scoring.ranges[k]) # {}

\* C14: a call of find_and_analyse_steps with step_size_threshold = 0 that has
\* found steps returns the threshold 0 for every step, has removed no step, and
\* its steps equal its steps_pre.
C14_AsStated ==
    (/\ pc = "done"
     /\ args.step_size_threshold = [kind |-> "float", value |-> 0]
     /\ result.steps_pre.number > 0)
    => /\ \A k \in 1..Len(result.min_sizes_pre.v) : result.min_sizes_pre.v[k] = Float(0)
       /\ \A k \in 1..Len(result.min_sizes.v) : result.min_sizes.v[k] = Float(0)
       /\ removed = <<0>>
       /\ result.steps = result.steps_pre

\* C15: a call of find_and_analyse_steps without expected_min_step_size uses
\* the threshold y_c of a call with expected_min_step_size = 1 on the same
\* filter result, and finds the steps which that threshold finds.
C15_AsStated ==
    (pc \in {"found", "ZeroDivisionError"} /\ args.expected_min_step_size = None)
    => /\ y_c = threshold_y_c(1, fbnl_filter.noise_mean)
       /\ found = find_steps(fbnl_filter.step_mass,
                             threshold_y_c(1, fbnl_filter.noise_mean),
                             min_step_spacing, args.switch_accept)

\* find_and_analyse_steps has returned or raised
Returned == pc \in {"done", "ZeroDivisionError"}

\* C16: for identical inputs find_and_analyse_steps ends in the same way and
\* returns the same StepFinderResult with verbose True and with verbose False,
\* whichever of the warning conditions hold.
C16_SameResult ==
    (Returned /\ earlier # NoValue) => (earlier.pc = pc /\ earlier.result = result)

Contains(out, line) == \E k \in 1..Len(out) : out[k] = line

\* both calls have returned steps, and the verbose one has shown the warning
\* about the threshold, about the expected dwell time and about the mean dwell
C16_Witness ==
    /\ pc = "done"
    /\ earlier # NoValue
    /\ result.steps.number > 0
    /\ \E out \in {stdout, earlier.stdout} :
         /\ Contains(out, "WARNING: The threshold y_c needs to satisfy")
         /\ Contains(out, "WARNING: The expected minimal dwell time is smaller than the filter window time")
         /\ Contains(out, "WARNING: Mean dwell time is lower than minimum step spacing.")

\* C23: in delete_small_steps, a pass of the loop that removes the step at
\* cursor i continues with the cursor at max(i - 1, 0) of the shortened lists
\* (the step before the fused plateaus, or the first step), and a pass that
\* removes nothing continues with the cursor at i + 1.
C23_Cursor ==
    [][(pc = "loop" /\ pc' = "loop") =>
           IF num_steps' < num_steps THEN i' = Max(i - 1, 0) ELSE i' = i + 1]_vars

\* the second of three steps was the only one removed so far, and the cursor
\* is back on the first step
C23_Witness ==
    /\ pc = "loop"
    /\ run = 1
    /\ steps_arg.number = 3
    /\ removed = <<1>>
    /\ indices = Pop(steps_arg.indices.v, 1)
    /\ i = 0

\* the length of a plateau
PlateauLength(p) == p[2] - p[1]

\* the plateaus pl and heights h after the plateaus k and k + 1 (counted from
\* 1) were replaced by one plateau with the start of the first, the stop of the
\* second and the length-weighted mean of the two heights
FusedAt(pl, h, k) ==
    [plateaus |-> [j \in 1..(Len(pl) - 1) |->
                      IF j < k THEN pl[j]
                      ELSE IF j = k THEN <<pl[k][1], pl[k + 1][2]>>
                      ELSE pl[j + 1]],
     heights |-> [j \in 1..(Len(h) - 1) |->
                     IF j < k THEN h[j]
                     ELSE IF j = k
                          THEN RDiv(RAdd(RMul(h[k], PlateauLength(pl[k])),
                                         RMul(h[k + 1], PlateauLength(pl[k + 1]))),
                                    PlateauLength(pl[k]) + PlateauLength(pl[k + 1]))
                          ELSE h[j + 1]]]

\* C24: a pass of the loop of delete_small_steps removes the step i under the
\* cursor exactly when |step_sizes[i]| < minsizes[i] (a step whose size equals
\* its threshold is kept), and the removal replaces the plateaus i and i + 1 by
\* one plateau from the start of plateau i to the stop of plateau i + 1 whose
\* height is (h_i * l_i + h_{i+1} * l_{i+1}) / (l_i + l_{i+1}).
C24_Removal ==
    [][(pc = "loop" /\ pc' = "loop") =>
           /\ (num_steps' = num_steps - 1) <=>
                  RLess(RAbs(step_sizes[i + 1]), minsizes[i + 1])
           /\ (num_steps' # num_steps - 1) =>
                  (num_steps' = num_steps /\ plateaus' = plateaus /\ p_heights' = p_heights)
           /\ (num_steps' = num_steps - 1) =>
                  /\ plateaus' = FusedAt(plateaus, p_heights, i + 1).plateaus
                  /\ p_heights' = FusedAt(plateaus, p_heights, i + 1).heights]_vars

\* the first step was kept with a size equal to its threshold, and one of the
\* others was removed by fusing two plateaus of different lengths and heights
C24_Witness ==
    /\ pc = "loop"
    /\ run = 1
    /\ steps_arg.number = 3
    /\ removed = <<1>>
    /\ i >= 1
    /\ RAbs(step_sizes[1]) = minsizes[1]
    /\ \E k \in 2..3 :
         /\ plateaus = FusedAt(steps_arg.plateaus.v, steps_arg.plateau_heights.v, k).plateaus
         /\ p_heights = FusedAt(steps_arg.plateaus.v, steps_arg.plateau_heights.v, k).heights
         /\ PlateauLength(steps_arg.plateaus.v[k]) # PlateauLength(steps_arg.plateaus.v[k + 1])
         /\ steps_arg.plateau_heights.v[k] # steps_arg.plateau_heights.v[k + 1]

\* the Steps that find_and_analyse_steps hands to delete_small_steps
StepsHandedOver ==
    LET heights == analyse_plateau_heights(found.plateaus, fbnl_filter.data)
    IN  Steps(np_array1(found.indices), np_array1(found.direction),
              np_array2(found.step_bounds), found.number,
              np_array2(found.plateaus), np_array1(found.p_centers),
              np_array1(analyse_step_sizes(heights)), np_array1(heights),
              np_array1(analyse_dwell_points(found.indices)))

\* C22: while delete_small_steps runs and after it has returned, every array
\* of the Steps it was handed and the array of thresholds are as they were
\* handed over, and steps_pre of the StepFinderResult is that Steps value.
C22_InputKept ==
    /\ (pc \in {"loop", "returned", "done"} /\ found.number > 0) =>
           /\ steps_arg = StepsHandedOver
           /\ min_arg = np_array1(get_min_step_sizes(found.indices, y_c, fbnl_filter,
                                                     args.step_size_threshold))
    /\ (pc = "done" /\ found.number > 0) => result.steps_pre = StepsHandedOver

\* a call from find_and_analyse_steps has removed a step and the result is made
C22_Witness ==
    /\ pc = "done"
    /\ run = 0
    /\ removed = <<1>>
    /\ result.steps_pre.number = 2
    /\ result.steps.number = 1

\* the integer r is a nearest integer of the float x
Nearest(r, x) == 2 * Abs(r * x[2] - x[1]) <= x[2]

\* C25: the min_step_spacing that find_and_analyse_steps hands to find_steps
\* is at least the window of the filter: it is the window if
\* expected_min_dwell_t is None, else the maximum of the window and of
\* expected_min_dwell_t * resolution rounded to an integer; min_dwell_time is
\* that spacing divided by the resolution.
C25_Spacing ==
    pc = "spaced" =>
        LET t == args.expected_min_dwell_t
            res == fbnl_filter.resolution
        IN  /\ min_step_spacing >= fbnl_filter.window
            /\ t = NoValue => min_step_spacing = fbnl_filter.window
            /\ t # NoValue =>
                 \E r \in 0..(MaxQuarters * MaxResolution) :
                    /\ Nearest(r, Norm(t[1] * res[1], t[2] * res[2]))
                    /\ min_step_spacing = Max(r, fbnl_filter.window)
            /\ result.min_dwell_time = Norm(min_step_spacing * res[2], res[1])

\* an expected dwell time of 3/4 s at 2 Hz (1.5 samples, rounded to 2) with a
\* window of 3 samples: the spacing is the window, the dwell time 3/2 s
C25_Witness ==
    /\ pc = "spaced"
    /\ args.expected_min_dwell_t = <<3, 4>>
    /\ fbnl_filter.resolution = <<2, 1>>
    /\ fbnl_filter.window = 3
    /\ min_step_spacing = 3
    /\ result.min_dwell_time = <<3, 2>>

\* the calls of one run with this window: the filter, then find and analyse
RunAt(window, verbose) ==
    <<<<"filter_fbnl", window>>, <<"find_and_analyse_steps", window, verbose>>>>

\* the calls of the runs with the first n of the windows, in their order
RunsOver(windows, n) ==
    [k \in 1..(2 * n) |-> RunAt(windows[(k + 1) \div 2], FALSE)[2 - (k % 2)]]

\* C26: filter_find_analyse_steps makes one filter and one find/analyse call
\* for every candidate window, in the order of the windows, and only after all
\* of them one more of each with the selected window, whose result it returns;
\* if filter_time is given the selected window is
\* max(round(filter_time * resolution), 1), whatever the runs gave.
C26_Sweep ==
    /\ pc \in {"sweeping", "selected"} =>
           sweep.calls = RunsOver(sweep.windows, Len(sweep.STDs))
    /\ pc = "selected" => Len(sweep.STDs) = Len(sweep.windows)
    /\ pc = "swept" =>
           /\ sweep.calls = RunsOver(sweep.windows, Len(sweep.windows))
                            \o RunAt(sweep.window, sweep.args.verbose)
           /\ result[1].step_finder_result = Len(sweep.calls)
    /\ (pc \in {"selected", "swept"} /\ sweep.args.filter_time # NoValue) =>
           \E r \in 0..(MaxSweepTime * 2) :
              /\ Nearest(r, RTimes(sweep.args.filter_time, sweep.args.resolution))
              /\ sweep.window = Max(r, 1)

\* three windows were tried, the window of least STD is not the one of
\* filter_time, and the call has returned the result of the run at the window
\* of filter_time
C26_Witness ==
    /\ pc = "swept"
    /\ Len(sweep.windows) = 3
    /\ sweep.args.filter_time = Float(2)
    /\ sweep.args.resolution = Float(1)
    /\ sweep.window = 2
    /\ sweep.STDs[1] < sweep.STDs[2]

\* a >= b on floats: every comparison with NaN is False
RAtLeast(a, b) == ~IsNaN(a) /\ ~IsNaN(b) /\ a[1] * b[2] >= b[1] * a[2]

\* C27: when delete_small_steps returns, every step that is left satisfies
\* |step_sizes[i]| >= minsizes[i], for every consistent Steps and thresholds.
C27_AsStated ==
    pc = "returned" =>
        \A k \in 1..steps.number : RAtLeast(RAbs(steps.step_sizes.v[k]), minsizes[k])

\* C27 amended: when delete_small_steps returns, every step that is left and
\* whose size and threshold are not NaN satisfies |step_sizes[i]| >=
\* minsizes[i]; a step whose size is NaN (a step beside an empty plateau) is
\* never removed.
C27_NoSmallStep ==
    pc = "returned" =>
        \A k \in 1..steps.number :
            \/ IsNaN(steps.step_sizes.v[k])
            \/ IsNaN(minsizes[k])
            \/ RAtLeast(RAbs(steps.step_sizes.v[k]), minsizes[k])

\* the first step was at or above its threshold when it was handed over, and
\* was removed all the same after a removal to its right; a step is left
C27_Witness ==
    /\ pc = "returned"
    /\ run = 1
    /\ steps_arg.number = 3
    /\ RAtLeast(RAbs(steps_arg.step_sizes.v[1]), min_arg.v[1])
    /\ steps_arg.indices.v[1] \notin Values(steps.indices.v)
    /\ steps.number = 1

\* the positions 1..n of a list mapped in their order into the positions 1..m
\* of the list it was taken from
Selections(n, m) ==
    { f \in [1..n -> 1..m] : \A j \in 1..(n - 1) : f[j] < f[j + 1] }

\* C28: in delete_small_steps the indices that are left are, in their order,
\* indices of the Steps handed over, and every step that is left has the
\* direction, the bounds and the threshold it was handed over with.
C28_Aligned ==
    InDelete =>
        /\ Len(direction) = Len(indices)
        /\ Len(step_bounds) = Len(indices)
        /\ Len(minsizes) = Len(indices)
        /\ \E f \in Selections(Len(indices), steps_arg.number) :
              \A k \in 1..Len(indices) :
                  /\ indices[k] = steps_arg.indices.v[f[k]]
                  /\ direction[k] = steps_arg.direction.v[f[k]]
                  /\ step_bounds[k] = steps_arg.bounds.v[f[k]]
                  /\ minsizes[k] = min_arg.v[f[k]]
       /\ (pc = "returned" =>
              /\ steps.indices.v = indices
              /\ steps.direction.v = direction
              /\ steps.bounds.v = step_bounds
              /\ steps.number = Len(indices))

\* the second of three steps was removed; the two that are left differ in
\* direction and in threshold
C28_Witness ==
    /\ pc = "returned"
    /\ run = 1
    /\ steps_arg.number = 3
    /\ steps.indices.v = <<steps_arg.indices.v[1], steps_arg.indices.v[3]>>
    /\ steps.direction.v[1] # steps.direction.v[2]
    /\ minsizes[1] # minsizes[2]

\* the sum over the plateaus of height * (stop - start)
RECURSIVE WeightedSum(_, _)
WeightedSum(heights, pl) ==
    IF pl = <<>> THEN Float(0)
    ELSE RAdd(RMul(heights[1], PlateauLength(pl[1])),
              WeightedSum(Tail(heights), Tail(pl)))

\* C29: in delete_small_steps the sum over the plateaus of height * (stop -
\* start) is after every removal what it was for the Steps handed over (NaN
\* before and after, if a plateau is empty), and when no step is left the one
\* plateau is (0, N) and has the height sum / N.
C29_WeightedSum ==
    InDelete =>
        /\ WeightedSum(p_heights, plateaus)
               = WeightedSum(steps_arg.plateau_heights.v, steps_arg.plateaus.v)
        /\ num_steps = 0 =>
               /\ plateaus = <<<<0, MaxN>>>>
               /\ p_heights[1]
                      = RDiv(WeightedSum(steps_arg.plateau_heights.v, steps_arg.plateaus.v),
                             MaxN)

\* three steps between plateaus of different heights were all removed, and
\* the height left is not the plain mean of the four
C29_Witness ==
    /\ pc = "returned"
    /\ run = 1
    /\ steps_arg.number = 3
    /\ NoEmptyPlateau(steps_arg.plateaus.v)
    /\ steps.number = 0
    /\ steps.plateau_heights.v[1] #
           RDiv(WeightedSum(steps_arg.plateau_heights.v, [k \in 1..4 |-> <<0, 1>>]), 4)

\* the 0-based position k exists in the list s
Exists(s, k) == 0 <= k /\ k < Len(s)

\* C30: for consistent Steps and thresholds, no pass of the loop of
\* delete_small_steps reads or writes a list position that does not exist: the
\* cursor satisfies 0 <= i < num_steps, step_sizes[i] and minsizes[i] exist,
\* and in a pass that removes step i so do plateaus[i + 1], p_heights[i + 1],
\* p_centers[i + 1], step_sizes[i - 1] if i >= 1, step_sizes[i + 1] and the
\* height after the fused plateau if i < num_steps - 1, the dwell entries
\* that are summed or popped, and position i of the lists of the step.
C30_InRange ==
    (pc = "loop" /\ i < num_steps) =>
        /\ 0 <= i
        /\ Exists(step_sizes, i)
        /\ Exists(minsizes, i)
        /\ below_minimum(step_sizes[i + 1], minsizes[i + 1]) =>
             /\ Exists(plateaus, i) /\ Exists(plateaus, i + 1)
             /\ Exists(p_heights, i) /\ Exists(p_heights, i + 1)
             /\ Exists(p_centers, i) /\ Exists(p_centers, i + 1)
             /\ i >= 1 => (Exists(step_sizes, i - 1) /\ Exists(Pop(p_heights, i), i - 1))
             /\ i < num_steps - 1 =>
                    (Exists(step_sizes, i + 1) /\ Exists(Pop(p_heights, i), i + 1))
             /\ (i >= 1 /\ i < num_steps - 1) =>
                    (Exists(dwell_points, i - 1) /\ Exists(dwell_points, i))
             /\ i < num_steps - 1 => Exists(dwell_points, i)
             /\ (~(i < num_steps - 1) /\ num_steps >= 2) => Len(dwell_points) >= 1
             /\ Exists(indices, i) /\ Exists(direction, i) /\ Exists(step_bounds, i)

\* after a removal the loop is about to remove the last of the two steps that
\* are left, whose dwell entry is taken off the end of the list
C30_Witness ==
    /\ pc = "loop"
    /\ run = 1
    /\ removed = <<1>>
    /\ num_steps = 2
    /\ i = 1
    /\ below_minimum(step_sizes[i + 1], minsizes[i + 1])

\* C21: with an edginess p of 0 the weights of the filter are f = b = 1/2 at
\* every point, whatever the variances sf and sb, and the filtered value is
\* (xf + xb) / 2.
C21_AsStated ==
    (pc = "weighted" /\ filter_args.p = 0) =>
        /\ filtered.f = Norm(1, 2)
        /\ filtered.b = Norm(1, 2)
        /\ filtered.data_filtered = Norm(filter_args.xf + filter_args.xb, 2)

====
